---- MODULE Spec2Model ----
(***************************************************************************)
(* pgferry: the migration pipeline (runMigration), the post-load installer *)
(* (postMigrate), the hook runner (loadAndExecSQLFiles) and the data       *)
(* streamer (migrateData), as a state machine over the statements issued   *)
(* to the target database.                                                 *)
(***************************************************************************)
EXTENDS Integers, Sequences, FiniteSets, TLC

VARIABLES
    cfg,      \* the MigrationConfig
    schema,   \* the introspected Schema: a sequence of tables
    pc,       \* the step of runMigration / postMigrate being executed
    k,        \* loop position inside the current step
    hist,     \* the steps entered so far, in order
    trace,    \* the statements issued to the target so far, in order
    err,      \* the error returned by runMigration
    target,   \* the target database
    spawned,  \* loop position of the table loop of the data streamer
    task,     \* per table: the state of its copy task
    errCh,    \* migrateDataParallel: the error channel
    tx,       \* migrateDataSingleTx: the source transaction
    call      \* the identifier and statement-splitter functions: the call in hand

vars == <<cfg, schema, pc, k, hist, trace, err, target, spawned, task, errCh, tx, call>>

(***************************************************************************)
(* Bounds                                                                  *)
(***************************************************************************)
MaxTables == 2
MaxWorkers == 2
MaxHookStmts == 1

(***************************************************************************)
(* Schema model (model.go): tables, columns, indexes and foreign keys are  *)
(* identified by their position in the introspected sequences.             *)
(***************************************************************************)
Column(name, dataType, unsigned, precision, extra) ==
    [PGName |-> name, DataType |-> dataType, Unsigned |-> unsigned,
     Precision |-> precision, Extra |-> extra]

Index(unique, type, hasPrefix, hasExpression, ncols) ==
    [Unique |-> unique, Type |-> type, HasPrefix |-> hasPrefix,
     HasExpression |-> hasExpression, NCols |-> ncols]

ForeignKey(col, refTable, deleteRule) ==
    [Column |-> col, RefPGTable |-> refTable, DeleteRule |-> deleteRule]

\* A source row: id is the key value, ref the value of the FK column (0 = NULL).
Row(id, ref) == [id |-> id, ref |-> ref]

\* A text column with its collation (COLLATION_NAME), a sequence of
\* one-character strings.
TextColumn(name, dataType, collation) ==
    [PGName |-> name, DataType |-> dataType, Unsigned |-> FALSE,
     Precision |-> 0, Extra |-> {}, Collation |-> collation]

GeneralCI ==
    << "u", "t", "f", "8", "_", "g", "e", "n", "e", "r", "a", "l", "_", "c", "i" >>

\* A referenced table: unsigned auto-increment key, a case-insensitive text
\* column, one unique index, one row.
ParentTable ==
    [Columns     |-> << Column("id", "int", TRUE, 10, {"auto_increment"}),
                        TextColumn("name", "varchar", GeneralCI) >>,
     PrimaryKey  |-> TRUE,
     Indexes     |-> << Index(TRUE, "BTREE", FALSE, FALSE, 1) >>,
     ForeignKeys |-> << >>,
     Rows        |-> << Row(1, 0) >>]

\* A referencing table: one foreign key (its referenced table is resolved per
\* schema), one of its rows is an orphan and another references the key of
\* that orphan, one column has an unmappable type.
ChildTable ==
    [Columns     |-> << Column("id", "int", FALSE, 10, {"auto_increment"}),
                        Column("parent_id", "int", FALSE, 10, {}),
                        Column("loc", "point", FALSE, 0, {}),
                        Column("updated_at", "timestamp", FALSE, 0,
                               {"on update current_timestamp"}) >>,
     PrimaryKey  |-> TRUE,
     Indexes     |-> << Index(FALSE, "FULLTEXT", FALSE, FALSE, 1),
                        Index(FALSE, "BTREE", FALSE, FALSE, 1) >>,
     ForeignKeys |-> << ForeignKey(2, 0, "CASCADE") >>,
     Rows        |-> << Row(1, 1), Row(2, 9), Row(3, 2) >>]

\* A table without keys and without rows, with one unmappable column.
BareTable ==
    [Columns     |-> << Column("shape", "geometry", FALSE, 0, {}),
                        Column("flag", "tinyint", TRUE, 3, {}) >>,
     PrimaryKey  |-> FALSE,
     Indexes     |-> << >>,
     ForeignKeys |-> << >>,
     Rows        |-> << >>]

TableShapes == {ParentTable, ChildTable, BareTable}

\* The table a foreign key of the schema references: the first table that has
\* a primary key and no foreign key of its own, else the first with a primary key.
RefTarget(s) ==
    LET parents == { t \in 1..Len(s) : s[t].PrimaryKey /\ Len(s[t].ForeignKeys) = 0 }
        keyed   == { t \in 1..Len(s) : s[t].PrimaryKey }
        pick(S) == CHOOSE t \in S : \A u \in S : t <= u
    IN  IF parents # {} THEN pick(parents) ELSE pick(keyed)

Resolve(s) ==
    [t \in 1..Len(s) |->
        [s[t] EXCEPT !.ForeignKeys =
            [j \in 1..Len(s[t].ForeignKeys) |->
                [s[t].ForeignKeys[j] EXCEPT !.RefPGTable = RefTarget(s)]]]]

Schemas == { Resolve(s) : s \in UNION { [1..n -> TableShapes] : n \in 0..MaxTables } }

(***************************************************************************)
(* Configuration (config.go, MigrationConfig and loadConfig)               *)
(***************************************************************************)
\* A hook list is a sequence of files, each file given by its statement count.
HookLists == { << >>, << MaxHookStmts >> }

HooksConfigs ==
    { [BeforeData |-> h, AfterData |-> h, BeforeFk |-> h, AfterAll |-> h] : h \in HookLists }

\* loadConfig's defaults of the options that only postMigrate reads.
DefaultPostOptions(c) ==
    /\ ~c.UnloggedTables
    /\ c.CleanOrphans
    /\ ~c.AddUnsignedChecks
    /\ ~c.ReplicateOnUpdateCurrentTimestamp

\* The configurations explored: every combination of the post-load options
\* under sequential streaming, the parallel streamer under the defaults.
Configs ==
    { c \in [SchemaOnly : BOOLEAN, DataOnly : BOOLEAN,
             OnSchemaExists : {"error", "recreate"},
             SourceSnapshotMode : {"none", "single_tx"},
             UnloggedTables : BOOLEAN, CleanOrphans : BOOLEAN,
             AddUnsignedChecks : BOOLEAN,
             ReplicateOnUpdateCurrentTimestamp : BOOLEAN,
             Workers : 1..MaxWorkers,
             UnknownAsText : BOOLEAN, TinyInt1AsBoolean : {FALSE},
             CIAsCitext : BOOLEAN,
             Hooks : HooksConfigs] :
        \* loadConfig: schema_only and data_only are mutually exclusive
        /\ ~(c.SchemaOnly /\ c.DataOnly)
        /\ c.SourceSnapshotMode = "single_tx" => c.Workers = 1
        /\ c.SourceSnapshotMode = "none" => DefaultPostOptions(c)
        \* ci_as_citext is read by createTables only: explored in schema_only runs
        /\ c.CIAsCitext => (c.SchemaOnly /\ c.SourceSnapshotMode = "none") }

Mode(c) == IF c.SchemaOnly THEN "schema_only"
           ELSE IF c.DataOnly THEN "data_only" ELSE "full"

(***************************************************************************)
(* Type check                                                              *)
(***************************************************************************)
SupportedTypes ==
    {"tinyint", "smallint", "mediumint", "int", "bigint", "float", "double",
     "decimal", "varchar", "char", "text", "json", "enum", "set", "timestamp",
     "datetime", "year", "date", "bit", "binary", "blob"}

\* mysqlMapType: TRUE when the mapper returns an error for the column.
MapTypeFails(col, c) ==
    col.DataType \notin SupportedTypes /\ ~c.UnknownAsText

RECURSIVE ColumnErrors(_, _, _, _)
ColumnErrors(t, cols, j, c) ==
    IF j > Len(cols) THEN << >>
    ELSE (IF MapTypeFails(cols[j], c) THEN << <<t, j>> >> ELSE << >>)
         \o ColumnErrors(t, cols, j + 1, c)

\* A collector that returns at the first table with an unsupported column.
RECURSIVE collectUnsupportedTypeErrors_FirstTable(_, _, _)
collectUnsupportedTypeErrors_FirstTable(s, t, c) ==
    IF t > Len(s) THEN << >>
    ELSE IF Len(ColumnErrors(t, s[t].Columns, 1, c)) > 0
         THEN ColumnErrors(t, s[t].Columns, 1, c)
         ELSE collectUnsupportedTypeErrors_FirstTable(s, t + 1, c)

RECURSIVE collectUnsupportedTypeErrorsFrom(_, _, _)
collectUnsupportedTypeErrorsFrom(s, t, c) ==
    IF t > Len(s) THEN << >>
    ELSE ColumnErrors(t, s[t].Columns, 1, c)
         \o collectUnsupportedTypeErrorsFrom(s, t + 1, c)

collectUnsupportedTypeErrors(s, c) == collectUnsupportedTypeErrorsFrom(s, 1, c)

(***************************************************************************)
(* Statements.  A statement names its operation, the table (position in    *)
(* the schema, 0 if none), the column / index / foreign key / hook         *)
(* statement it is about, and the step that issued it.                     *)
(***************************************************************************)
Stmt(op, t, n, ph) == [op |-> op, tbl |-> t, n |-> n, ph |-> ph]

RECURSIVE Flatten(_)
Flatten(ss) == IF Len(ss) = 0 THEN << >> ELSE Head(ss) \o Flatten(Tail(ss))

\* Steps that touch no target connection: reading a hook file, building DDL text.
IsLocal(e) == e.op \in {"READ FILE", "BUILD DDL"}

\* strings.Contains(col.Extra, marker)
ExtraContains(col, marker) == marker \in col.Extra

indexUnsupportedReason(idx) ==
    \/ idx.HasExpression
    \/ idx.HasPrefix
    \/ (idx.Type # "" /\ idx.Type # "BTREE")
    \/ idx.NCols = 0

unsignedCheckExpr(col, c) ==
    /\ col.Unsigned
    /\ ~(col.DataType = "tinyint" /\ col.Precision = 1 /\ c.TinyInt1AsBoolean)
    /\ col.DataType \in {"tinyint", "smallint", "mediumint", "int", "bigint",
                         "decimal", "float", "double"}

\* createTables: per table, generateCreateTable then one CREATE TABLE.
createTablesStmts(s) ==
    Flatten([t \in 1..Len(s) |->
        << Stmt("BUILD DDL", t, 0, "createTables"),
           Stmt("CREATE TABLE", t, 0, "createTables") >>])

\* A SET LOGGED loop that misses the last table.
setLoggedStmts_SkipLast(s) ==
    [t \in 1..(Len(s) - 1) |-> Stmt("SET LOGGED", t, 0, "setLogged")]

setLoggedStmts(s) ==
    [t \in 1..Len(s) |-> Stmt("SET LOGGED", t, 0, "setLogged")]

\* A primary-key step that adds the keys of the tables with foreign keys only.
addPrimaryKeysStmts_ChildrenOnly(s) ==
    Flatten([t \in 1..Len(s) |->
        IF s[t].PrimaryKey /\ Len(s[t].ForeignKeys) > 0
        THEN << Stmt("ADD PRIMARY KEY", t, 0, "addPrimaryKeys") >> ELSE << >>])

addPrimaryKeysStmts(s) ==
    Flatten([t \in 1..Len(s) |->
        IF s[t].PrimaryKey
        THEN << Stmt("ADD PRIMARY KEY", t, 0, "addPrimaryKeys") >> ELSE << >>])

addIndexesStmts(s) ==
    Flatten([t \in 1..Len(s) |->
        Flatten([j \in 1..Len(s[t].Indexes) |->
            IF indexUnsupportedReason(s[t].Indexes[j]) THEN << >>
            ELSE << Stmt("CREATE INDEX", t, j, "addIndexes") >>])])

cleanOrphansStmts(s) ==
    Flatten([t \in 1..Len(s) |->
        [j \in 1..Len(s[t].ForeignKeys) |->
            IF s[t].ForeignKeys[j].DeleteRule = "SET NULL"
            THEN Stmt("UPDATE ORPHANS", t, j, "cleanOrphans")
            ELSE Stmt("DELETE ORPHANS", t, j, "cleanOrphans")]])

addForeignKeysStmts(s) ==
    Flatten([t \in 1..Len(s) |->
        [j \in 1..Len(s[t].ForeignKeys) |->
            Stmt("ADD FOREIGN KEY", t, j, "addForeignKeys")]])

resetSequencesStmts(s) ==
    Flatten([t \in 1..Len(s) |->
        Flatten([j \in 1..Len(s[t].Columns) |->
            IF ~ExtraContains(s[t].Columns[j], "auto_increment") THEN << >>
            ELSE << Stmt("CREATE SEQUENCE", t, j, "resetSequences"),
                    Stmt("SETVAL", t, j, "resetSequences"),
                    Stmt("SET DEFAULT NEXTVAL", t, j, "resetSequences") >>])])

addUnsignedChecksStmts(s, c) ==
    Flatten([t \in 1..Len(s) |->
        Flatten([j \in 1..Len(s[t].Columns) |->
            IF ~unsignedCheckExpr(s[t].Columns[j], c) THEN << >>
            ELSE << Stmt("ADD CHECK", t, j, "addUnsignedChecks"),
                    Stmt("VALIDATE CHECK", t, j, "addUnsignedChecks") >>])])

\* createTriggers: the trigger function set_<col> is created once per column
\* name (createdFuncs), the trigger once per column.
FirstWithName(s, t, j) ==
    \A t2 \in 1..Len(s) : \A j2 \in 1..Len(s[t2].Columns) :
        (/\ ExtraContains(s[t2].Columns[j2], "on update current_timestamp")
         /\ s[t2].Columns[j2].PGName = s[t].Columns[j].PGName)
        => (t2 > t \/ (t2 = t /\ j2 >= j))

createTriggersStmts(s) ==
    Flatten([t \in 1..Len(s) |->
        Flatten([j \in 1..Len(s[t].Columns) |->
            IF ~ExtraContains(s[t].Columns[j], "on update current_timestamp") THEN << >>
            ELSE (IF FirstWithName(s, t, j)
                  THEN << Stmt("CREATE FUNCTION", t, j, "createTriggers") >> ELSE << >>)
                 \o << Stmt("CREATE TRIGGER", t, j, "createTriggers") >>])])

setTriggersStmts(s, enable, ph) ==
    [t \in 1..Len(s) |->
        Stmt(IF enable THEN "ENABLE TRIGGER ALL" ELSE "DISABLE TRIGGER ALL", t, 0, ph)]

\* loadAndExecSQLFiles: per file, read it, then execute each of its statements.
loadAndExecSQLFilesStmts(files, phase) ==
    Flatten([f \in 1..Len(files) |->
        << Stmt("READ FILE", 0, f, phase) >>
        \o [n \in 1..files[f] |-> Stmt("HOOK", f, n, phase)]])

(***************************************************************************)
(* The target database: what the statements do to it.                      *)
(***************************************************************************)
EmptyTarget(s) ==
    [schemaExists |-> FALSE, tables |-> {}, unlogged |-> {}, pks |-> {},
     indexes |-> {}, fks |-> {}, seqs |-> {}, checks |-> {}, triggers |-> {},
     trigOff |-> {}, rows |-> [t \in 1..Len(s) |-> << >>]]

\* The schema an earlier schema_only run leaves behind: tables with their
\* keys, indexes and foreign keys, no rows.
PriorTarget(s) ==
    [EmptyTarget(s) EXCEPT
        !.schemaExists = TRUE,
        !.tables = 1..Len(s),
        !.pks = { t \in 1..Len(s) : s[t].PrimaryKey },
        !.indexes = UNION { { <<t, j>> : j \in { j \in 1..Len(s[t].Indexes) :
                                ~indexUnsupportedReason(s[t].Indexes[j]) } } :
                            t \in 1..Len(s) },
        !.fks = UNION { { <<t, j>> : j \in 1..Len(s[t].ForeignKeys) } :
                        t \in 1..Len(s) }]

\* Rows of table t that violate foreign key j: a non-null FK value without a
\* matching parent row.
IsOrphan(tg, s, t, j, r) ==
    /\ r.ref # 0
    /\ \A p \in 1..Len(tg.rows[s[t].ForeignKeys[j].RefPGTable]) :
           tg.rows[s[t].ForeignKeys[j].RefPGTable][p].id # r.ref

HasOrphans(tg, s, t, j) ==
    \E p \in 1..Len(tg.rows[t]) : IsOrphan(tg, s, t, j, tg.rows[t][p])

RECURSIVE DeleteOrphans(_, _, _, _, _)
DeleteOrphans(tg, s, t, j, rs) ==
    IF Len(rs) = 0 THEN << >>
    ELSE (IF IsOrphan(tg, s, t, j, Head(rs)) THEN << >> ELSE << Head(rs) >>)
         \o DeleteOrphans(tg, s, t, j, Tail(rs))

NullifyOrphans(tg, s, t, j) ==
    [p \in 1..Len(tg.rows[t]) |->
        IF IsOrphan(tg, s, t, j, tg.rows[t][p])
        THEN [tg.rows[t][p] EXCEPT !.ref = 0] ELSE tg.rows[t][p]]

\* Whether the target accepts the statement.
Feasible(tg, s, e) ==
    CASE e.op = "CREATE SCHEMA"   -> ~tg.schemaExists
      [] e.op = "CREATE TABLE"    -> tg.schemaExists /\ e.tbl \notin tg.tables
      [] e.op = "ADD FOREIGN KEY" -> ~HasOrphans(tg, s, e.tbl, e.n)
      [] OTHER -> TRUE

\* The target after the statement succeeded.
Apply(tg, s, c, e) ==
    CASE e.op = "DROP SCHEMA"   -> EmptyTarget(s)
      [] e.op = "CREATE SCHEMA" -> [tg EXCEPT !.schemaExists = TRUE]
      [] e.op = "CREATE TABLE"  ->
            [tg EXCEPT !.tables = @ \cup {e.tbl},
                       !.unlogged = IF c.UnloggedTables THEN @ \cup {e.tbl} ELSE @]
      [] e.op = "SET LOGGED"      -> [tg EXCEPT !.unlogged = @ \ {e.tbl}]
      [] e.op = "ADD PRIMARY KEY" -> [tg EXCEPT !.pks = @ \cup {e.tbl}]
      [] e.op = "CREATE INDEX"    -> [tg EXCEPT !.indexes = @ \cup {<<e.tbl, e.n>>}]
      [] e.op = "DELETE ORPHANS"  ->
            [tg EXCEPT !.rows[e.tbl] = DeleteOrphans(tg, s, e.tbl, e.n, tg.rows[e.tbl])]
      [] e.op = "UPDATE ORPHANS"  ->
            [tg EXCEPT !.rows[e.tbl] = NullifyOrphans(tg, s, e.tbl, e.n)]
      [] e.op = "ADD FOREIGN KEY" -> [tg EXCEPT !.fks = @ \cup {<<e.tbl, e.n>>}]
      [] e.op = "CREATE SEQUENCE" -> [tg EXCEPT !.seqs = @ \cup {<<e.tbl, e.n>>}]
      [] e.op = "VALIDATE CHECK"  -> [tg EXCEPT !.checks = @ \cup {<<e.tbl, e.n>>}]
      [] e.op = "CREATE TRIGGER"  -> [tg EXCEPT !.triggers = @ \cup {<<e.tbl, e.n>>}]
      [] e.op = "DISABLE TRIGGER ALL" -> [tg EXCEPT !.trigOff = @ \cup {e.tbl}]
      [] e.op = "ENABLE TRIGGER ALL"  -> [tg EXCEPT !.trigOff = @ \ {e.tbl}]
      [] OTHER -> tg

(***************************************************************************)
(* Control flow of runMigration and postMigrate: the step that follows a   *)
(* completed step.                                                         *)
(***************************************************************************)
\* A data_only installer that falls through to the checks after the sequences.
postMigrateDataOnly_FallThrough(c, step) ==
    CASE step = "enter"          -> "resetSequences"
      [] step = "resetSequences" ->
            IF c.AddUnsignedChecks THEN "addUnsignedChecks" ELSE "after_all"
      [] step = "addUnsignedChecks" -> "after_all"
      [] step = "after_all"      -> "done"

\* postMigrate in data_only mode: sequences, then the after_all hooks.
postMigrateDataOnly(c, step) ==
    CASE step = "enter"          -> "resetSequences"
      [] step = "resetSequences" -> "after_all"
      [] step = "after_all"      -> "done"

\* An installer that adds the foreign keys before it cleans the orphans.
postMigrateDDL_FkFirst(c, step) ==
    CASE step = "enter" ->
            IF ~c.SchemaOnly THEN "setLogged" ELSE "addPrimaryKeys"
      [] step = "setLogged"      -> "addPrimaryKeys"
      [] step = "addPrimaryKeys" -> "addIndexes"
      [] step = "addIndexes"     -> "before_fk"
      [] step = "before_fk"      -> "addForeignKeys"
      [] step = "addForeignKeys" ->
            IF ~c.SchemaOnly THEN "cleanOrphans" ELSE "resetSequences"
      [] step = "cleanOrphans"   -> "resetSequences"
      [] step = "resetSequences" ->
            IF c.AddUnsignedChecks THEN "addUnsignedChecks"
            ELSE IF c.ReplicateOnUpdateCurrentTimestamp THEN "createTriggers"
            ELSE "after_all"
      [] step = "addUnsignedChecks" ->
            IF c.ReplicateOnUpdateCurrentTimestamp THEN "createTriggers"
            ELSE "after_all"
      [] step = "createTriggers" -> "after_all"
      [] step = "after_all"      -> "done"

\* An installer that forgets to skip the orphan cleanup in schema_only mode.
postMigrateDDL_AlwaysClean(c, step) ==
    CASE step = "enter" ->
            IF ~c.SchemaOnly THEN "setLogged" ELSE "addPrimaryKeys"
      [] step = "setLogged"      -> "addPrimaryKeys"
      [] step = "addPrimaryKeys" -> "addIndexes"
      [] step = "addIndexes"     -> "before_fk"
      [] step = "before_fk"      -> "cleanOrphans"
      [] step = "cleanOrphans"    -> "addForeignKeys"
      [] step = "addForeignKeys"  -> "resetSequences"
      [] step = "resetSequences" ->
            IF c.AddUnsignedChecks THEN "addUnsignedChecks"
            ELSE IF c.ReplicateOnUpdateCurrentTimestamp THEN "createTriggers"
            ELSE "after_all"
      [] step = "addUnsignedChecks" ->
            IF c.ReplicateOnUpdateCurrentTimestamp THEN "createTriggers"
            ELSE "after_all"
      [] step = "createTriggers" -> "after_all"
      [] step = "after_all"      -> "done"

\* postMigrate in full and schema_only mode.
postMigrateDDL(c, step) ==
    CASE step = "enter" ->
            IF ~c.SchemaOnly THEN "setLogged" ELSE "addPrimaryKeys"
      [] step = "setLogged"      -> "addPrimaryKeys"
      [] step = "addPrimaryKeys" -> "addIndexes"
      [] step = "addIndexes"     -> "before_fk"
      [] step = "before_fk"      ->
            IF ~c.SchemaOnly THEN "cleanOrphans" ELSE "addForeignKeys"
      [] step = "cleanOrphans"    -> "addForeignKeys"
      [] step = "addForeignKeys"  -> "resetSequences"
      [] step = "resetSequences" ->
            IF c.AddUnsignedChecks THEN "addUnsignedChecks"
            ELSE IF c.ReplicateOnUpdateCurrentTimestamp THEN "createTriggers"
            ELSE "after_all"
      [] step = "addUnsignedChecks" ->
            IF c.ReplicateOnUpdateCurrentTimestamp THEN "createTriggers"
            ELSE "after_all"
      [] step = "createTriggers" -> "after_all"
      [] step = "after_all"      -> "done"

postMigrate(c, step) ==
    IF c.DataOnly THEN postMigrateDataOnly(c, step) ELSE postMigrateDDL(c, step)

\* An orchestrator that does not disable the triggers in data_only mode.
DataSection_NoDisable(c) ==
    IF ~c.SchemaOnly THEN "before_data" ELSE postMigrate(c, "enter")

DataSection(c) ==
    IF ~c.SchemaOnly
    THEN (IF c.DataOnly THEN "disableTriggers" ELSE "before_data")
    ELSE postMigrate(c, "enter")

\* An orchestrator that streams the data before it creates the tables.
runMigration_DataFirst(c, step) ==
    CASE step = "connect" ->
            IF ~c.DataOnly THEN "prepareTargetSchema" ELSE DataSection(c)
      [] step = "prepareTargetSchema" ->
            IF ~c.SchemaOnly THEN "before_data" ELSE "createTables"
      [] step = "createTables"    -> postMigrate(c, "enter")
      [] step = "disableTriggers" -> "before_data"
      [] step = "before_data"     -> "migrateData"
      [] step = "migrateData"     -> "after_data"
      [] step = "after_data"      ->
            IF c.DataOnly THEN "enableTriggers" ELSE "createTables"
      [] step = "enableTriggers"  -> postMigrate(c, "enter")

runMigration(c, step) ==
    CASE step = "connect" ->
            IF ~c.DataOnly THEN "prepareTargetSchema" ELSE DataSection(c)
      [] step = "prepareTargetSchema" -> "createTables"
      [] step = "createTables"    -> DataSection(c)
      [] step = "disableTriggers" -> "before_data"
      [] step = "before_data"     -> "migrateData"
      [] step = "migrateData"     -> "after_data"
      [] step = "after_data"      ->
            IF c.DataOnly THEN "enableTriggers" ELSE postMigrate(c, "enter")
      [] step = "enableTriggers"  -> postMigrate(c, "enter")

(***************************************************************************)
(* Initial state: a configuration accepted by loadConfig, an introspected  *)
(* schema, and a target that is empty or holds the schema of an earlier    *)
(* run (always the latter in data_only mode).                              *)
(***************************************************************************)
NoError == [msg |-> "", cols |-> << >>]
Error(msg, cols) == [msg |-> msg, cols |-> cols]

\* No function call in hand.
NoCall == [fn |-> "none", arg |-> << >>, out |-> << >>, prev |-> << >>, round |-> 0]

IdleTask == [pc |-> "idle", sem |-> FALSE, conn |-> FALSE, copied |-> 0]

Init ==
    /\ cfg \in Configs
    /\ schema \in Schemas
    /\ pc = "start"
    /\ k = 0
    /\ hist = << >>
    /\ trace = << >>
    /\ err = NoError
    /\ target \in (IF cfg.DataOnly THEN {PriorTarget(schema)}
                   ELSE {EmptyTarget(schema), PriorTarget(schema)})
    /\ spawned = 0
    /\ task = [t \in 1..Len(schema) |-> IdleTask]
    /\ errCh = << >>
    /\ tx = "none"
    /\ call = NoCall

streamVars == <<spawned, task, errCh, tx>>

GoTo(next) ==
    /\ pc' = next
    /\ hist' = IF next \in {"done", "failed"} THEN hist ELSE Append(hist, next)
    /\ k' = 0

\* An error that is recorded while the pipeline goes on.
Abort_Continue(msg, cols) ==
    /\ err' = Error(msg, cols)
    /\ UNCHANGED <<pc, hist, k>>

Abort(msg, cols) ==
    /\ pc' = "failed"
    /\ err' = Error(msg, cols)
    /\ UNCHANGED <<hist, k>>

\* One iteration of a statement loop of step `step`, or its return.
ExecLoop(step, stmts, next) ==
    /\ pc = step
    /\ IF k < Len(stmts)
       THEN LET e == stmts[k + 1] IN
            \E ok \in (IF Feasible(target, schema, e) THEN BOOLEAN ELSE {FALSE}) :
                /\ trace' = IF IsLocal(e) THEN trace ELSE Append(trace, e)
                /\ IF ok
                   THEN /\ target' = Apply(target, schema, cfg, e)
                        /\ k' = k + 1
                        /\ UNCHANGED <<pc, hist, err>>
                   ELSE /\ Abort(step, << >>)
                        /\ UNCHANGED target
       ELSE /\ GoTo(next)
            /\ UNCHANGED <<trace, target, err>>
    /\ UNCHANGED <<cfg, schema, call>>
    /\ UNCHANGED streamVars

(***************************************************************************)
(* runMigration                                                            *)
(***************************************************************************)
\* Load the config, force unlogged_tables off in the split modes, connect to
\* the source and introspect it.
Start ==
    /\ pc = "start"
    /\ \/ /\ cfg' = [cfg EXCEPT !.UnloggedTables =
                        IF cfg.SchemaOnly \/ cfg.DataOnly THEN FALSE ELSE @]
          /\ GoTo("typecheck")
          /\ UNCHANGED err
       \/ /\ Abort("introspect schema", << >>)
          /\ UNCHANGED cfg
    /\ UNCHANGED <<schema, call, trace, target>>
    /\ UNCHANGED streamVars

TypeCheck ==
    /\ pc = "typecheck"
    /\ LET typeErrs == collectUnsupportedTypeErrors(schema, cfg) IN
       IF Len(typeErrs) > 0
       THEN Abort("unsupported source column types detected", typeErrs)
       ELSE GoTo("connect") /\ UNCHANGED err
    /\ UNCHANGED <<cfg, schema, call, trace, target>>
    /\ UNCHANGED streamVars

Connect ==
    /\ pc = "connect"
    /\ \/ GoTo(runMigration(cfg, "connect")) /\ UNCHANGED err
       \/ Abort("connect postgres", << >>)
    /\ UNCHANGED <<cfg, schema, call, trace, target>>
    /\ UNCHANGED streamVars

\* A schema prepare that drops the schema and does not create it again.
prepareTargetSchemaStmts_DropOnly ==
    << Stmt("DROP SCHEMA", 0, 0, "prepareTargetSchema") >>

prepareTargetSchemaStmts ==
    << Stmt("DROP SCHEMA", 0, 0, "prepareTargetSchema"),
       Stmt("CREATE SCHEMA", 0, 0, "prepareTargetSchema") >>

\* The existence query of on_schema_exists=error, with the answer it got.
SelectExists(answer) == Stmt("SELECT EXISTS", 0, answer, "prepareTargetSchema")

\* A schema prepare that recreates the schema whatever on_schema_exists says.
prepareTargetSchema_NoCheck ==
    ExecLoop("prepareTargetSchema", prepareTargetSchemaStmts,
             runMigration(cfg, "prepareTargetSchema"))

prepareTargetSchema ==
    /\ pc = "prepareTargetSchema"
    /\ \/ /\ cfg.OnSchemaExists = "recreate"
          /\ ExecLoop("prepareTargetSchema", prepareTargetSchemaStmts,
                      runMigration(cfg, "prepareTargetSchema"))
       \/ /\ cfg.OnSchemaExists = "error"
          /\ k = 0
          /\ \/ /\ trace' = Append(trace, SelectExists("error"))
                /\ Abort("check schema existence", << >>)
             \/ /\ trace' = Append(trace, SelectExists(IF target.schemaExists THEN "exists" ELSE "absent"))
                /\ IF target.schemaExists
                   THEN Abort("schema already exists", << >>)
                   ELSE k' = 1 /\ UNCHANGED <<pc, hist, err>>
          /\ UNCHANGED <<cfg, schema, call, target>>
          /\ UNCHANGED streamVars
       \/ /\ cfg.OnSchemaExists = "error"
          /\ k > 0
          /\ ExecLoop("prepareTargetSchema", prepareTargetSchemaStmts,
                      runMigration(cfg, "prepareTargetSchema"))

createTables ==
    ExecLoop("createTables", createTablesStmts(schema), runMigration(cfg, "createTables"))

disableTriggers ==
    ExecLoop("disableTriggers", setTriggersStmts(schema, FALSE, "disableTriggers"),
             runMigration(cfg, "disableTriggers"))

beforeDataHooks ==
    ExecLoop("before_data", loadAndExecSQLFilesStmts(cfg.Hooks.BeforeData, "before_data"),
             runMigration(cfg, "before_data"))

afterDataHooks ==
    ExecLoop("after_data", loadAndExecSQLFilesStmts(cfg.Hooks.AfterData, "after_data"),
             runMigration(cfg, "after_data"))

enableTriggers ==
    ExecLoop("enableTriggers", setTriggersStmts(schema, TRUE, "enableTriggers"),
             runMigration(cfg, "enableTriggers"))

(***************************************************************************)
(* postMigrate                                                             *)
(***************************************************************************)
setLogged ==
    ExecLoop("setLogged", setLoggedStmts(schema), postMigrate(cfg, "setLogged"))

addPrimaryKeys ==
    ExecLoop("addPrimaryKeys", addPrimaryKeysStmts(schema), postMigrate(cfg, "addPrimaryKeys"))

addIndexes ==
    ExecLoop("addIndexes", addIndexesStmts(schema), postMigrate(cfg, "addIndexes"))

beforeFkHooks ==
    ExecLoop("before_fk", loadAndExecSQLFilesStmts(cfg.Hooks.BeforeFk, "before_fk"),
             postMigrate(cfg, "before_fk"))

cleanOrphans ==
    ExecLoop("cleanOrphans", cleanOrphansStmts(schema), postMigrate(cfg, "cleanOrphans"))

addForeignKeys ==
    ExecLoop("addForeignKeys", addForeignKeysStmts(schema), postMigrate(cfg, "addForeignKeys"))

resetSequences ==
    ExecLoop("resetSequences", resetSequencesStmts(schema), postMigrate(cfg, "resetSequences"))

addUnsignedChecks ==
    ExecLoop("addUnsignedChecks", addUnsignedChecksStmts(schema, cfg),
             postMigrate(cfg, "addUnsignedChecks"))

createTriggers ==
    ExecLoop("createTriggers", createTriggersStmts(schema), postMigrate(cfg, "createTriggers"))

afterAllHooks ==
    ExecLoop("after_all", loadAndExecSQLFilesStmts(cfg.Hooks.AfterAll, "after_all"),
             postMigrate(cfg, "after_all"))

(***************************************************************************)
(* migrateData: the parallel streamer (migrateDataParallel, migrateTable), *)
(* the single-transaction streamer (migrateDataSingleTx) and the table     *)
(* copy they share (migrateTableFromSource, rowSource).                    *)
(***************************************************************************)
Streaming == pc = "migrateData"
Parallel  == cfg.SourceSnapshotMode # "single_tx"

SemHeld == Cardinality({ t \in 1..Len(schema) : task[t].sem })

Finished(t) == task[t].pc \in {"done", "failed"}

\* A return that never gives its semaphore slot back.
TaskReturn_KeepSem(t, ok) ==
    /\ task' = [task EXCEPT ![t] = [@ EXCEPT !.pc = IF ok THEN "done" ELSE "failed",
                                             !.conn = FALSE]]
    /\ IF Parallel
       THEN /\ errCh' = IF ok THEN errCh ELSE Append(errCh, t)
            /\ UNCHANGED <<pc, err, tx>>
       ELSE /\ UNCHANGED errCh
            /\ IF ok THEN UNCHANGED <<pc, err, tx>>
               ELSE /\ tx' = "rolledback"
                    /\ pc' = "failed"
                    /\ err' = Error("migrateData", << t >>)

\* A return that leaves the target connection with the task.
TaskReturn_KeepConn(t, ok) ==
    /\ task' = [task EXCEPT ![t] = [@ EXCEPT !.pc = IF ok THEN "done" ELSE "failed",
                                             !.sem = FALSE]]
    /\ IF Parallel
       THEN /\ errCh' = IF ok THEN errCh ELSE Append(errCh, t)
            /\ UNCHANGED <<pc, err, tx>>
       ELSE /\ UNCHANGED errCh
            /\ IF ok THEN UNCHANGED <<pc, err, tx>>
               ELSE /\ tx' = "rolledback"
                    /\ pc' = "failed"
                    /\ err' = Error("migrateData", << t >>)

\* The copy task of table t returns: its deferred releases run; in parallel
\* mode an error goes to the error channel, in single_tx mode it ends the
\* streamer and the deferred rollback runs.
TaskReturn(t, ok) ==
    /\ task' = [task EXCEPT ![t] = [@ EXCEPT !.pc = IF ok THEN "done" ELSE "failed",
                                             !.sem = FALSE, !.conn = FALSE]]
    /\ IF Parallel
       THEN /\ errCh' = IF ok THEN errCh ELSE Append(errCh, t)
            /\ UNCHANGED <<pc, err, tx>>
       ELSE /\ UNCHANGED errCh
            /\ IF ok THEN UNCHANGED <<pc, err, tx>>
               ELSE /\ tx' = "rolledback"
                    /\ pc' = "failed"
                    /\ err' = Error("migrateData", << t >>)

TaskStep(t, from, to) ==
    /\ task[t].pc = from
    /\ task' = [task EXCEPT ![t].pc = to]
    /\ UNCHANGED <<pc, err, errCh, tx>>

\* migrateDataParallel: the loop that starts one goroutine per table.
Spawn ==
    /\ Streaming /\ Parallel
    /\ spawned < Len(schema)
    /\ spawned' = spawned + 1
    /\ task' = [task EXCEPT ![spawned + 1].pc = "sem"]
    /\ UNCHANGED <<cfg, schema, call, pc, k, hist, trace, err, target, errCh, tx>>

\* A semaphore send that never blocks.
SemAcquire_Unbounded(t) ==
    /\ Streaming /\ Parallel
    /\ task[t].pc = "sem"
    /\ task' = [task EXCEPT ![t] = [@ EXCEPT !.pc = "open", !.sem = TRUE]]
    /\ UNCHANGED <<cfg, schema, call, pc, k, hist, trace, err, target, spawned, errCh, tx>>

\* sem <- struct{}{}
SemAcquire(t) ==
    /\ Streaming /\ Parallel
    /\ task[t].pc = "sem"
    /\ SemHeld < cfg.Workers
    /\ task' = [task EXCEPT ![t] = [@ EXCEPT !.pc = "open", !.sem = TRUE]]
    /\ UNCHANGED <<cfg, schema, call, pc, k, hist, trace, err, target, spawned, errCh, tx>>

\* migrateTable: the task opens its own source connection.
OpenSource(t) ==
    /\ Streaming /\ Parallel
    /\ task[t].pc = "open"
    /\ \/ TaskStep(t, "open", "count")
       \/ TaskReturn(t, FALSE)
    /\ UNCHANGED <<cfg, schema, call, k, hist, trace, target, spawned>>

\* A row count that does not return early for an empty table.
CountRows_NoEmptyCheck(t) ==
    /\ Streaming
    /\ task[t].pc = "count"
    /\ \/ TaskStep(t, "count", "acquire")
       \/ TaskReturn(t, FALSE)
    /\ UNCHANGED <<cfg, schema, call, k, hist, trace, target, spawned>>

\* SELECT COUNT(*): an empty table is done without a bulk load.
CountRows(t) ==
    /\ Streaming
    /\ task[t].pc = "count"
    /\ \/ IF Len(schema[t].Rows) = 0
          THEN TaskReturn(t, TRUE)
          ELSE TaskStep(t, "count", "acquire")
       \/ TaskReturn(t, FALSE)
    /\ UNCHANGED <<cfg, schema, call, k, hist, trace, target, spawned>>

\* pool.Acquire
AcquireConn(t) ==
    /\ Streaming
    /\ task[t].pc = "acquire"
    /\ \/ /\ task' = [task EXCEPT ![t] = [@ EXCEPT !.pc = "select", !.conn = TRUE]]
          /\ UNCHANGED <<pc, err, errCh, tx>>
       \/ TaskReturn(t, FALSE)
    /\ UNCHANGED <<cfg, schema, call, k, hist, trace, target, spawned>>

\* SELECT * and the start of the bulk load (CopyFrom).
SelectRows(t) ==
    /\ Streaming
    /\ task[t].pc = "select"
    /\ \/ /\ TaskStep(t, "select", "copy")
          /\ trace' = Append(trace, Stmt("COPY", t, 0, "migrateData"))
       \/ /\ TaskReturn(t, FALSE)
          /\ UNCHANGED trace
    /\ UNCHANGED <<cfg, schema, call, k, hist, target, spawned>>

\* A row source that ends the stream at a bad row without reporting it.
CopyRow_Swallow(t) ==
    /\ Streaming
    /\ task[t].pc = "copy"
    /\ task[t].copied < Len(schema[t].Rows)
    /\ \/ /\ task' = [task EXCEPT ![t].copied = @ + 1]
          /\ target' = [target EXCEPT !.rows[t] =
                           Append(@, schema[t].Rows[task[t].copied + 1])]
          /\ UNCHANGED <<pc, err, errCh, tx>>
       \/ /\ TaskReturn(t, TRUE)
          /\ UNCHANGED target
    /\ UNCHANGED <<cfg, schema, call, k, hist, trace, spawned>>

\* rowSource.Next: scan and transform one source row and send it; a scan or
\* transform error aborts the bulk load, which leaves no row of it behind.
CopyRow(t) ==
    /\ Streaming
    /\ task[t].pc = "copy"
    /\ task[t].copied < Len(schema[t].Rows)
    /\ \/ /\ task' = [task EXCEPT ![t].copied = @ + 1]
          /\ target' = [target EXCEPT !.rows[t] =
                           Append(@, schema[t].Rows[task[t].copied + 1])]
          /\ UNCHANGED <<pc, err, errCh, tx>>
       \/ /\ TaskReturn(t, FALSE)
          /\ target' = [target EXCEPT !.rows[t] = << >>]
    /\ UNCHANGED <<cfg, schema, call, k, hist, trace, spawned>>

\* A bulk load that may complete before the source is exhausted.
CopyEnd_Truncated(t) ==
    /\ Streaming
    /\ task[t].pc = "copy"
    /\ task[t].copied <= Len(schema[t].Rows)
    /\ TaskReturn(t, TRUE)
    /\ UNCHANGED target
    /\ UNCHANGED <<cfg, schema, call, k, hist, trace, spawned>>

\* The source is exhausted: the bulk load completes or fails.
CopyEnd(t) ==
    /\ Streaming
    /\ task[t].pc = "copy"
    /\ task[t].copied = Len(schema[t].Rows)
    /\ \/ /\ TaskReturn(t, TRUE)
          /\ UNCHANGED target
       \/ /\ TaskReturn(t, FALSE)
          /\ target' = [target EXCEPT !.rows[t] = << >>]
    /\ UNCHANGED <<cfg, schema, call, k, hist, trace, spawned>>

\* A streamer without wg.Wait: it reads the channel once the loop has ended.
WaitAll_NoWait ==
    /\ Streaming /\ Parallel
    /\ spawned = Len(schema)
    /\ IF Len(errCh) > 0
       THEN Abort("table(s) failed migration", errCh)
       ELSE GoTo(runMigration(cfg, "migrateData")) /\ UNCHANGED err
    /\ UNCHANGED <<cfg, schema, call, trace, target, spawned, task, errCh, tx>>

\* A streamer that returns at the first error instead of waiting for all tasks.
WaitAll_FirstError ==
    /\ Streaming /\ Parallel
    /\ spawned = Len(schema)
    /\ (\A t \in 1..Len(schema) : Finished(t)) \/ Len(errCh) > 0
    /\ IF Len(errCh) > 0
       THEN Abort("table(s) failed migration", errCh)
       ELSE GoTo(runMigration(cfg, "migrateData")) /\ UNCHANGED err
    /\ UNCHANGED <<cfg, schema, call, trace, target, spawned, task, errCh, tx>>

\* wg.Wait, then the errors of the channel are counted.
WaitAll ==
    /\ Streaming /\ Parallel
    /\ spawned = Len(schema)
    /\ \A t \in 1..Len(schema) : Finished(t)
    /\ IF Len(errCh) > 0
       THEN Abort("table(s) failed migration", errCh)
       ELSE GoTo(runMigration(cfg, "migrateData")) /\ UNCHANGED err
    /\ UNCHANGED <<cfg, schema, call, trace, target, spawned, task, errCh, tx>>

\* migrateDataSingleTx: open the source, set the isolation level, begin.
BeginTx ==
    /\ Streaming /\ ~Parallel
    /\ tx = "none"
    /\ \/ tx' = "active" /\ UNCHANGED <<pc, err>>
       \/ pc' = "failed" /\ err' = Error("begin source transaction", << >>)
                         /\ UNCHANGED tx
    /\ UNCHANGED <<cfg, schema, call, k, hist, trace, target, spawned, task, errCh>>

\* The sequential table loop inside the transaction.
NextTable ==
    /\ Streaming /\ ~Parallel
    /\ tx = "active"
    /\ spawned < Len(schema)
    /\ \A t \in 1..spawned : Finished(t)
    /\ spawned' = spawned + 1
    /\ task' = [task EXCEPT ![spawned + 1].pc = "count"]
    /\ UNCHANGED <<cfg, schema, call, pc, k, hist, trace, err, target, errCh, tx>>

\* A streamer that commits as soon as the tables copied so far are finished.
Commit_Early ==
    /\ Streaming /\ ~Parallel
    /\ tx = "active"
    /\ \A t \in 1..spawned : Finished(t)
    /\ \/ tx' = "committed" /\ GoTo(runMigration(cfg, "migrateData")) /\ UNCHANGED err
       \/ tx' = "rolledback" /\ Abort("commit source transaction", << >>)
    /\ UNCHANGED <<cfg, schema, call, trace, target, spawned, task, errCh>>

Commit ==
    /\ Streaming /\ ~Parallel
    /\ tx = "active"
    /\ spawned = Len(schema)
    /\ \A t \in 1..Len(schema) : Finished(t)
    /\ \/ tx' = "committed" /\ GoTo(runMigration(cfg, "migrateData")) /\ UNCHANGED err
       \/ tx' = "rolledback" /\ Abort("commit source transaction", << >>)
    /\ UNCHANGED <<cfg, schema, call, trace, target, spawned, task, errCh>>

(***************************************************************************)
(* Specification                                                           *)
(***************************************************************************)
Next ==
    \/ Start
    \/ TypeCheck
    \/ Connect
    \/ prepareTargetSchema
    \/ createTables
    \/ disableTriggers
    \/ beforeDataHooks
    \/ Spawn
    \/ \E t \in 1..Len(schema) : SemAcquire(t)
    \/ \E t \in 1..Len(schema) : OpenSource(t)
    \/ \E t \in 1..Len(schema) : CountRows(t)
    \/ \E t \in 1..Len(schema) : AcquireConn(t)
    \/ \E t \in 1..Len(schema) : SelectRows(t)
    \/ \E t \in 1..Len(schema) : CopyRow(t)
    \/ \E t \in 1..Len(schema) : CopyEnd(t)
    \/ WaitAll
    \/ BeginTx
    \/ NextTable
    \/ Commit
    \/ afterDataHooks
    \/ enableTriggers
    \/ setLogged
    \/ addPrimaryKeys
    \/ addIndexes
    \/ beforeFkHooks
    \/ cleanOrphans
    \/ addForeignKeys
    \/ resetSequences
    \/ addUnsignedChecks
    \/ createTriggers
    \/ afterAllHooks

Spec == Init /\ [][Next]_vars

\* The goroutines of the parallel streamer: the one that runs
\* migrateDataParallel, and one per table.
StreamerStep == Spawn \/ WaitAll

TableTask(t) ==
    /\ t \in 1..Len(schema)
    /\ Parallel
    /\ \/ SemAcquire(t)
       \/ OpenSource(t)
       \/ CountRows(t)
       \/ AcquireConn(t)
       \/ SelectRows(t)
       \/ CopyRow(t)
       \/ CopyEnd(t)

\* The Go scheduler runs every goroutine that can run, and every table copy
\* ends: each goroutine of the streamer is weakly fair.
LiveSpec ==
    /\ Init
    /\ [][Next]_vars
    /\ WF_vars(StreamerStep)
    /\ \A t \in 1..MaxTables : WF_vars(TableTask(t))

TypeOK ==
    /\ pc \in {"start", "typecheck", "connect", "prepareTargetSchema", "createTables",
               "disableTriggers", "before_data", "migrateData", "after_data",
               "enableTriggers", "setLogged", "addPrimaryKeys", "addIndexes",
               "before_fk", "cleanOrphans", "addForeignKeys", "resetSequences",
               "addUnsignedChecks", "createTriggers", "after_all", "done", "failed"}
    /\ (pc = "failed") = (err # NoError)

(***************************************************************************)
(* Vocabulary of the properties                                            *)
(***************************************************************************)
\* The steps in the order the pipeline lists them.
PipelineOrder ==
    << "typecheck", "connect", "prepareTargetSchema", "createTables",
       "disableTriggers", "before_data", "migrateData", "after_data",
       "enableTriggers", "setLogged", "addPrimaryKeys", "addIndexes",
       "before_fk", "cleanOrphans", "addForeignKeys", "resetSequences",
       "addUnsignedChecks", "createTriggers", "after_all" >>

Rank(step) == CHOOSE i \in 1..Len(PipelineOrder) : PipelineOrder[i] = step

PostSteps == { PipelineOrder[i] : i \in 10..Len(PipelineOrder) }
IsPostStep(st) == st \in PostSteps

Entered(step) == \E i \in 1..Len(hist) : hist[i] = step

\* Positions in the trace of the statements of an operation / of a step.
Issued(op) == { i \in 1..Len(trace) : trace[i].op = op }
IssuedBy(step) == { i \in 1..Len(trace) : trace[i].ph = step }
IssuedFor(op, t, n) ==
    { i \in 1..Len(trace) : trace[i].op = op /\ trace[i].tbl = t /\ trace[i].n = n }

Before(A, B) == \A a \in A : \A b \in B : a < b

Tables == 1..Len(schema)
ForeignKeysOf(t) == 1..Len(schema[t].ForeignKeys)

SequenceOps == {"CREATE SEQUENCE", "SETVAL", "SET DEFAULT NEXTVAL"}
OrphanOps == {"DELETE ORPHANS", "UPDATE ORPHANS"}
IssuedAny(ops) == { i \in 1..Len(trace) : trace[i].op \in ops }

\* The number of statements a hook list holds.
RECURSIVE SumSeq(_)
SumSeq(q) == IF Len(q) = 0 THEN 0 ELSE Head(q) + SumSeq(Tail(q))

(***************************************************************************)
(* C1: in full mode the post-load steps run in the listed order (SET       *)
(* LOGGED, primary keys, indexes, before_fk hooks, orphan cleanup, foreign *)
(* keys, sequences, unsigned checks, triggers, after_all hooks); every     *)
(* primary key is added before any index is built, the orphan cleanup of   *)
(* every foreign key precedes the first ADD FOREIGN KEY, and sequences are *)
(* reset only after all data has been loaded.                              *)
(***************************************************************************)
C1_PostLoadOrder ==
    Mode(cfg) = "full" =>
        /\ LET post == SelectSeq(hist, IsPostStep) IN
               \A i \in 1..(Len(post) - 1) : Rank(post[i]) < Rank(post[i + 1])
        /\ pc = "done" =>
               /\ \A st \in {"addPrimaryKeys", "addIndexes", "before_fk",
                             "addForeignKeys", "resetSequences", "after_all"} : Entered(st)
               /\ cfg.AddUnsignedChecks => Entered("addUnsignedChecks")
               /\ cfg.ReplicateOnUpdateCurrentTimestamp => Entered("createTriggers")
        /\ Before(Issued("ADD PRIMARY KEY"), Issued("CREATE INDEX"))
        /\ Issued("CREATE INDEX") # {} =>
               \A t \in Tables : schema[t].PrimaryKey
                   => IssuedFor("ADD PRIMARY KEY", t, 0) # {}
        /\ Issued("ADD FOREIGN KEY") # {} =>
               \A t \in Tables : \A j \in ForeignKeysOf(t) :
                   \E i \in IssuedAny(OrphanOps) :
                       /\ trace[i].tbl = t /\ trace[i].n = j
                       /\ Before({i}, Issued("ADD FOREIGN KEY"))
        /\ IssuedAny(SequenceOps) # {} =>
               /\ Entered("after_data")
               /\ \A t \in Tables :
                      task[t].pc = "done" /\ task[t].copied = Len(schema[t].Rows)
               /\ Before(Issued("COPY"), IssuedAny(SequenceOps))

C1_Witness ==
    /\ Mode(cfg) = "full" /\ pc = "done"
    /\ cfg.AddUnsignedChecks /\ cfg.ReplicateOnUpdateCurrentTimestamp
    /\ Len(schema) = 2
    /\ Cardinality(Issued("ADD PRIMARY KEY")) = 2
    /\ Issued("CREATE INDEX") # {}
    /\ Issued("DELETE ORPHANS") # {}
    /\ Issued("ADD FOREIGN KEY") # {}
    /\ Issued("SETVAL") # {}
    /\ Issued("VALIDATE CHECK") # {}
    /\ Issued("CREATE TRIGGER") # {}
    /\ IssuedBy("after_all") # {}

(***************************************************************************)
(* C2: in full mode the phases run in the order type check, schema         *)
(* prepare, table creation, before_data hooks, data streaming, after_data  *)
(* hooks, post-load installer; no row is copied before every table has     *)
(* been created, and no post-load step starts before the data phase and    *)
(* the after_data hooks have finished.                                     *)
(***************************************************************************)
C2_PhaseOrder ==
    Mode(cfg) = "full" =>
        /\ \A i \in 1..(Len(hist) - 1) : Rank(hist[i]) < Rank(hist[i + 1])
        /\ (\E st \in PostSteps : Entered(st)) =>
               /\ \A st \in {"typecheck", "prepareTargetSchema", "createTables",
                             "before_data", "migrateData", "after_data"} : Entered(st)
               /\ \A t \in Tables : task[t].pc = "done"
               /\ Cardinality(Issued("HOOK") \cap IssuedBy("after_data"))
                      = SumSeq(cfg.Hooks.AfterData)
               /\ \A st \in PostSteps :
                      Before(Issued("COPY") \cup IssuedBy("after_data"), IssuedBy(st))
        /\ ((\E t \in Tables : task[t].pc # "idle") \/ Issued("COPY") # {}) =>
               /\ target.tables = Tables
               /\ \A t \in Tables : IssuedFor("CREATE TABLE", t, 0) # {}
               /\ Before(Issued("CREATE TABLE"), Issued("COPY"))
               /\ Cardinality(Issued("HOOK") \cap IssuedBy("before_data"))
                      = SumSeq(cfg.Hooks.BeforeData)
               /\ Before(IssuedBy("before_data"), Issued("COPY"))
        /\ Before(IssuedBy("prepareTargetSchema"), Issued("CREATE TABLE"))

C2_Witness ==
    /\ Mode(cfg) = "full" /\ pc = "done"
    /\ Len(schema) = 2
    /\ cfg.SourceSnapshotMode = "none" /\ cfg.Workers = 2
    /\ Cardinality(Issued("COPY")) = 2
    /\ Issued("DROP SCHEMA") # {}
    /\ IssuedBy("before_data") # {} /\ IssuedBy("after_data") # {}
    /\ Issued("ADD PRIMARY KEY") # {}

(***************************************************************************)
(* C3: if the type mapping of a column returns an error, the pipeline      *)
(* aborts before anything is issued to the target (no schema, no table, no *)
(* hook), with one error that lists every unsupported column of the whole  *)
(* schema.                                                                 *)
(***************************************************************************)
UnsupportedColumns ==
    { tc \in UNION { { <<t, j>> : j \in 1..Len(schema[t].Columns) } : t \in Tables } :
        MapTypeFails(schema[tc[1]].Columns[tc[2]], cfg) }

C3_TypeErrorsAbortFirst ==
    UnsupportedColumns # {} =>
        /\ trace = << >>
        /\ \A t \in Tables : task[t] = IdleTask
        /\ pc \in {"start", "typecheck", "failed"}
        /\ \A st \in {"connect", "prepareTargetSchema", "createTables", "before_data"} :
               ~Entered(st)
        /\ (pc = "failed" /\ Entered("typecheck")) =>
               /\ err.msg = "unsupported source column types detected"
               /\ { err.cols[i] : i \in 1..Len(err.cols) } = UnsupportedColumns
               /\ Len(err.cols) = Cardinality(UnsupportedColumns)

C3_Witness ==
    /\ pc = "failed"
    /\ Len(err.cols) = 2
    /\ err.cols[1][1] # err.cols[2][1]
    /\ target.schemaExists = FALSE

(***************************************************************************)
(* C4: orphan cleanup runs only in full mode and only when clean_orphans   *)
(* is true; with clean_orphans = false, or in schema_only or data_only     *)
(* mode, no orphan-cleanup UPDATE or DELETE is issued and the foreign keys *)
(* are added against the loaded data as it is.                             *)
(***************************************************************************)
C4_CleanupOnlyWhenEnabled ==
    (Mode(cfg) # "full" \/ ~cfg.CleanOrphans) =>
        IssuedAny(OrphanOps) = {}

(***************************************************************************)
(* C5: in data_only mode DISABLE TRIGGER ALL is issued on every table      *)
(* before any row is bulk-loaded, and ENABLE TRIGGER ALL on every table    *)
(* after the bulk load.                                                    *)
(***************************************************************************)
C5_TriggersAroundLoad ==
    Mode(cfg) = "data_only" =>
        /\ ((\E t \in Tables : task[t].pc # "idle") \/ Issued("COPY") # {}
                \/ Entered("migrateData")) =>
               /\ \A t \in Tables : IssuedFor("DISABLE TRIGGER ALL", t, 0) # {}
               /\ Before(Issued("DISABLE TRIGGER ALL"), Issued("COPY"))
        /\ pc = "migrateData" => target.trigOff = Tables
        /\ Issued("ENABLE TRIGGER ALL") # {} =>
               /\ \A t \in Tables :
                      task[t].pc = "done" /\ task[t].copied = Len(schema[t].Rows)
               /\ Before(Issued("COPY"), Issued("ENABLE TRIGGER ALL"))
               /\ Before(Issued("DISABLE TRIGGER ALL"), Issued("ENABLE TRIGGER ALL"))
        /\ ((\E st \in PostSteps : Entered(st)) \/ pc = "done") =>
               /\ \A t \in Tables : IssuedFor("ENABLE TRIGGER ALL", t, 0) # {}
               /\ target.trigOff = {}

C5_Witness ==
    /\ Mode(cfg) = "data_only" /\ pc = "done"
    /\ Len(schema) = 2
    /\ Cardinality(Issued("COPY")) = 2
    /\ Cardinality(Issued("DISABLE TRIGGER ALL")) = 2
    /\ Cardinality(Issued("ENABLE TRIGGER ALL")) = 2
    /\ \E t \in Tables : Len(target.rows[t]) = 3

(***************************************************************************)
(* C6: in data_only mode the post-load installer executes only the         *)
(* sequence reset and then the after_all hooks, in that order; no schema   *)
(* prepare, table creation, SET LOGGED, primary key, index, before_fk      *)
(* hook, orphan cleanup, foreign key, unsigned check or trigger creation   *)
(* is executed.                                                            *)
(***************************************************************************)
DDLOps ==
    {"SELECT EXISTS", "DROP SCHEMA", "CREATE SCHEMA", "CREATE TABLE", "SET LOGGED",
     "ADD PRIMARY KEY", "CREATE INDEX", "DELETE ORPHANS", "UPDATE ORPHANS",
     "ADD FOREIGN KEY", "ADD CHECK", "VALIDATE CHECK", "CREATE FUNCTION",
     "CREATE TRIGGER"}

C6_DataOnlyPostLoad ==
    Mode(cfg) = "data_only" =>
        /\ SelectSeq(hist, IsPostStep)
               \in { << >>, << "resetSequences" >>, << "resetSequences", "after_all" >> }
        /\ ~Entered("prepareTargetSchema") /\ ~Entered("createTables")
        /\ IssuedAny(DDLOps) = {}
        /\ IssuedBy("before_fk") = {}
        /\ Before(IssuedAny(SequenceOps), IssuedBy("after_all"))
        /\ IssuedBy("after_all") # {} =>
               Len(resetSequencesStmts(schema)) = Cardinality(IssuedAny(SequenceOps))
        /\ pc = "done" =>
               /\ Entered("resetSequences") /\ Entered("after_all")
               /\ Cardinality(Issued("HOOK") \cap IssuedBy("after_all"))
                      = SumSeq(cfg.Hooks.AfterAll)
               /\ target.pks = PriorTarget(schema).pks
               /\ target.indexes = PriorTarget(schema).indexes
               /\ target.fks = PriorTarget(schema).fks
               /\ target.checks = {} /\ target.triggers = {}

C6_Witness ==
    /\ Mode(cfg) = "data_only" /\ pc = "done"
    /\ cfg.AddUnsignedChecks /\ cfg.ReplicateOnUpdateCurrentTimestamp
    /\ cfg.CleanOrphans
    /\ Len(schema) = 2
    /\ Issued("SETVAL") # {}
    /\ IssuedBy("after_all") # {}
    /\ \E t \in Tables : \E j \in ForeignKeysOf(t) : HasOrphans(target, schema, t, j)

(***************************************************************************)
(* C7: in schema_only mode no data is streamed and the before_data hooks,  *)
(* the after_data hooks, SET LOGGED and the orphan cleanup are skipped,    *)
(* while table creation, primary keys, indexes, before_fk hooks, foreign   *)
(* keys, sequences and after_all hooks still run.                          *)
(***************************************************************************)
C7_SchemaOnlySteps ==
    Mode(cfg) = "schema_only" =>
        /\ \A st \in {"disableTriggers", "before_data", "migrateData", "after_data",
                      "enableTriggers", "setLogged", "cleanOrphans"} : ~Entered(st)
        /\ Issued("COPY") = {} /\ Issued("SET LOGGED") = {}
        /\ IssuedAny(OrphanOps) = {}
        /\ IssuedBy("before_data") = {} /\ IssuedBy("after_data") = {}
        /\ \A t \in Tables : task[t] = IdleTask
        /\ spawned = 0 /\ tx = "none"
        /\ pc = "done" =>
               /\ \A st \in {"createTables", "addPrimaryKeys", "addIndexes", "before_fk",
                             "addForeignKeys", "resetSequences", "after_all"} : Entered(st)
               /\ target.tables = Tables
               /\ target.pks = PriorTarget(schema).pks
               /\ target.indexes = PriorTarget(schema).indexes
               /\ target.fks = PriorTarget(schema).fks
               /\ Len(resetSequencesStmts(schema)) = Cardinality(IssuedAny(SequenceOps))
               /\ Cardinality(Issued("HOOK") \cap IssuedBy("before_fk"))
                      = SumSeq(cfg.Hooks.BeforeFk)
               /\ Cardinality(Issued("HOOK") \cap IssuedBy("after_all"))
                      = SumSeq(cfg.Hooks.AfterAll)
               /\ \A t \in Tables : target.rows[t] = << >>

C7_Witness ==
    /\ Mode(cfg) = "schema_only" /\ pc = "done"
    /\ Len(schema) = 2
    /\ Cardinality(Issued("CREATE TABLE")) = 2
    /\ Issued("ADD PRIMARY KEY") # {} /\ Issued("CREATE INDEX") # {}
    /\ Issued("ADD FOREIGN KEY") # {} /\ Issued("SETVAL") # {}
    /\ IssuedBy("before_fk") # {} /\ IssuedBy("after_all") # {}

(***************************************************************************)
(* C8: ALTER TABLE ... SET LOGGED is issued once per table, only in full   *)
(* mode and only when unlogged_tables is enabled; never when               *)
(* unlogged_tables is false or in schema_only or data_only mode.           *)
(***************************************************************************)
C8_SetLoggedOnlyWhenUnlogged ==
    Issued("SET LOGGED") # {} => (Mode(cfg) = "full" /\ cfg.UnloggedTables)

\* C8 as the code has it: SET LOGGED is issued only in full mode, at most
\* once per table, and on every table once the step has returned, whether or
\* not unlogged_tables is enabled; no table is left unlogged after the step.
C8_SetLoggedInFullMode ==
    /\ Issued("SET LOGGED") # {} => Mode(cfg) = "full"
    /\ \A t \in Tables : Cardinality(IssuedFor("SET LOGGED", t, 0)) <= 1
    /\ Issued("SET LOGGED") \subseteq IssuedBy("setLogged")
    /\ (Mode(cfg) = "full" /\ Entered("addPrimaryKeys")) =>
           /\ \A t \in Tables : Cardinality(IssuedFor("SET LOGGED", t, 0)) = 1
           /\ target.unlogged = {}
    /\ (Mode(cfg) # "full" /\ pc # "start") => target.unlogged = {}

C8_Witness ==
    /\ Mode(cfg) = "full" /\ ~cfg.UnloggedTables
    /\ pc = "done"
    /\ Len(schema) = 2
    /\ Cardinality(Issued("SET LOGGED")) = 2

(***************************************************************************)
(* C9: with on_schema_exists = error and the target schema already         *)
(* existing, the pipeline aborts before any DDL statement is issued to the *)
(* target: no DROP SCHEMA, CREATE SCHEMA or CREATE TABLE is executed.      *)
(***************************************************************************)
C9_ErrorModeAbortsBeforeDDL ==
    (cfg.OnSchemaExists = "error" /\ ~cfg.DataOnly) =>
        /\ Issued("DROP SCHEMA") = {}
        /\ IssuedAny(DDLOps \ {"SELECT EXISTS"}) # {} =>
               trace[1].op = "SELECT EXISTS" /\ trace[1] = SelectExists("absent")
        /\ (Len(trace) >= 1 /\ trace[1].op = "SELECT EXISTS"
              /\ trace[1] = SelectExists("exists")) =>
               /\ pc = "failed"
               /\ err.msg = "schema already exists"
               /\ Len(trace) = 1
               /\ target = PriorTarget(schema)
               /\ ~Entered("createTables")
               /\ \A t \in Tables : task[t] = IdleTask

C9_Witness ==
    /\ cfg.OnSchemaExists = "error" /\ ~cfg.DataOnly
    /\ Len(trace) = 1 /\ trace[1].op = "SELECT EXISTS"
    /\ trace[1] = SelectExists("exists")
    /\ pc = "failed"
    /\ Len(schema) = 2
    /\ target.tables = Tables

(***************************************************************************)
(* C10: errors propagate upward and abort the pipeline: once a phase, a    *)
(* hook statement or a post-load sub-step returns an error, no later       *)
(* phase, sub-step or hook is executed and the run ends with a failure.    *)
(***************************************************************************)
\* The step in which each error is raised.
RaisedIn(e) ==
    CASE e.msg \in {"unsupported source column types detected"} -> "typecheck"
      [] e.msg \in {"connect postgres"} -> "connect"
      [] e.msg \in {"check schema existence", "schema already exists"}
            -> "prepareTargetSchema"
      [] e.msg \in {"migrateData", "table(s) failed migration",
                    "begin source transaction", "commit source transaction"}
            -> "migrateData"
      [] OTHER -> e.msg

C10_Step ==
    /\ err = NoError /\ pc # "failed"
    /\ (err' # NoError) <=> (pc' = "failed")
    /\ pc' = "failed" =>
           /\ hist' = hist
           /\ [target' EXCEPT !.rows = target.rows] = target
           /\ err'.msg # "introspect schema" => hist[Len(hist)] = RaisedIn(err')
           /\ err'.msg = "introspect schema" => hist = << >>
    /\ (\E t \in Tables : task'[t].pc = "failed") =>
           /\ pc' \in {"migrateData", "failed"}
           /\ hist'[Len(hist')] = "migrateData"
    /\ pc' = "done" =>
           /\ err' = NoError /\ errCh' = << >>
           /\ \A t \in Tables : task'[t].pc # "failed"

C10_ErrorsAbort == [][C10_Step]_vars

C10_Witness ==
    /\ pc = "failed" /\ err.msg = "before_fk"
    /\ Mode(cfg) = "full"
    /\ Len(schema) = 2
    /\ trace[Len(trace)].op = "HOOK"
    /\ Issued("CREATE INDEX") # {}
    /\ IssuedAny(OrphanOps) = {} /\ Issued("ADD FOREIGN KEY") = {}

(***************************************************************************)
(* C11: in parallel mode the errors of all table tasks are collected: a    *)
(* failing table does not stop the tasks of the other tables, every        *)
(* failing table is reported, and the streamer returns one error whose     *)
(* count is the number of failed tables, and no error exactly when no task *)
(* failed.                                                                 *)
(***************************************************************************)
FailedTables == { t \in Tables : task[t].pc = "failed" }

C11_ParallelErrorsCollected ==
    (Parallel /\ Entered("migrateData")) =>
        /\ { errCh[i] : i \in 1..Len(errCh) } = FailedTables
        /\ Len(errCh) = Cardinality(FailedTables)
        /\ err.msg = "table(s) failed migration" =>
               /\ err.cols = errCh
               /\ Len(err.cols) >= 1
               /\ spawned = Len(schema)
               /\ \A t \in Tables : Finished(t)
        /\ (pc = "failed" /\ hist[Len(hist)] = "migrateData") =>
               /\ err.msg = "table(s) failed migration"
               /\ FailedTables # {}
        /\ (pc # "migrateData" /\ (pc # "failed" \/ hist[Len(hist)] # "migrateData")) =>
               /\ FailedTables = {}
               /\ \A t \in Tables : task[t].pc = "done"

C11_Witness ==
    /\ Parallel /\ pc = "failed"
    /\ err.msg = "table(s) failed migration"
    /\ Len(schema) = 2
    /\ Len(err.cols) = 1
    /\ task[1].pc = "failed" /\ task[1].copied = 1
    /\ task[2].pc = "done" /\ Len(target.rows[2]) = 3
    /\ \E i, j \in Issued("COPY") : i < j /\ trace[i].tbl = 1 /\ trace[j].tbl = 2

(***************************************************************************)
(* C12: in single_tx mode the tables are copied one after another inside   *)
(* one source transaction; COMMIT is issued only after every table has     *)
(* been copied, and on any failure the transaction is rolled back, no      *)
(* later table is copied and the error is propagated.                      *)
(***************************************************************************)
Running(t) == task[t].pc \notin {"idle", "done", "failed"}

C12_SingleTxSequential ==
    (~Parallel /\ Entered("migrateData")) =>
        /\ errCh = << >> /\ SemHeld = 0
        /\ \A t \in Tables :
               /\ Running(t) => (tx = "active" /\ pc = "migrateData")
               /\ task[t].pc # "idle" =>
                      /\ t <= spawned
                      /\ \A u \in 1..(t - 1) :
                             task[u].pc = "done" /\ task[u].copied = Len(schema[u].Rows)
               /\ task[t].pc = "idle" => (t > spawned /\ IssuedFor("COPY", t, 0) = {})
        /\ \A i, j \in Issued("COPY") : i < j => trace[i].tbl < trace[j].tbl
        /\ tx = "committed" =>
               /\ pc # "migrateData"
               /\ pc = "failed" => hist[Len(hist)] # "migrateData"
               /\ \A t \in Tables :
                      task[t].pc = "done" /\ task[t].copied = Len(schema[t].Rows)
        /\ FailedTables # {} =>
               /\ tx = "rolledback" /\ pc = "failed"
               /\ err.msg = "migrateData"
               /\ \A t \in FailedTables :
                      /\ err.cols = << t >>
                      /\ \A u \in (t + 1)..Len(schema) : task[u] = IdleTask
        /\ (pc = "failed" /\ hist[Len(hist)] = "migrateData") => tx \in {"none", "rolledback"}
        /\ (pc # "migrateData" /\ (pc # "failed" \/ hist[Len(hist)] # "migrateData")) =>
               tx = "committed"

C12_Witness ==
    /\ ~Parallel /\ pc = "failed"
    /\ Len(schema) = 2
    /\ tx = "rolledback"
    /\ task[1].pc = "failed" /\ task[1].copied = 1
    /\ IssuedFor("COPY", 1, 0) # {}
    /\ task[2] = IdleTask

(***************************************************************************)
(* C13: after the pipeline succeeds in full mode, the row count of every   *)
(* target table is the source row count minus the orphan rows removed by   *)
(* the orphan cleanup.                                                     *)
(***************************************************************************)
\* The source rows of table t that the cleanup's DELETE removes: rows with a
\* non-null reference that has no parent row.
OrphansRemoved(t) ==
    { p \in 1..Len(schema[t].Rows) :
        \E j \in ForeignKeysOf(t) :
            /\ schema[t].ForeignKeys[j].DeleteRule # "SET NULL"
            /\ IsOrphan(target, schema, t, j, schema[t].Rows[p]) }

C13_RowCounts ==
    Mode(cfg) = "full" =>
        /\ (Entered("after_data") /\ ~Entered("cleanOrphans")) =>
               \A t \in Tables : target.rows[t] = schema[t].Rows
        /\ (Entered("resetSequences") \/ pc = "done") =>
               \A t \in Tables :
                   /\ Len(target.rows[t])
                          = Len(schema[t].Rows) - Cardinality(OrphansRemoved(t))
                   /\ \A p \in 1..Len(schema[t].Rows) :
                          p \notin OrphansRemoved(t) =>
                              \E q \in 1..Len(target.rows[t]) :
                                  target.rows[t][q] = schema[t].Rows[p]

C13_Witness ==
    /\ Mode(cfg) = "full" /\ pc = "done"
    /\ Len(schema) = 2
    /\ Len(schema[1].Rows) = 1 /\ Len(target.rows[1]) = 1
    /\ Len(schema[2].Rows) = 3 /\ Len(target.rows[2]) = 1
    /\ Cardinality(OrphansRemoved(2)) = 2
    /\ Issued("DELETE ORPHANS") # {}

(***************************************************************************)
(* C14: whenever a foreign key is added, the referenced table already has  *)
(* its primary key (or the unique index that covers the referenced         *)
(* columns).                                                               *)
(***************************************************************************)
RefTable(t, j) == schema[t].ForeignKeys[j].RefPGTable

\* The unique indexes of table r that addIndexes creates.
UniqueIndexes(r) ==
    { i \in 1..Len(schema[r].Indexes) :
        schema[r].Indexes[i].Unique /\ ~indexUnsupportedReason(schema[r].Indexes[i]) }

EmptyTables == { t \in Tables : Len(schema[t].Rows) = 0 }

C15_EmptyTableNoCopy ==
    \A t \in EmptyTables :
        /\ IssuedFor("COPY", t, 0) = {}
        /\ task[t].pc \in {"idle", "sem", "open", "count", "done", "failed"}
        /\ ~task[t].conn
        /\ task[t].copied = 0
        /\ Entered("after_data") => task[t].pc = "done"
        /\ Entered("migrateData") => target.rows[t] = << >>

C15_Witness ==
    /\ Entered("after_data")
    /\ Len(schema) = 2
    /\ EmptyTables = {2}
    /\ task[2].pc = "done"
    /\ IssuedFor("COPY", 1, 0) # {}

(***************************************************************************)
(* C16: a schema with zero tables completes the pipeline with no DDL       *)
(* issued to the target and no error.                                      *)
(***************************************************************************)
C16_ZeroTablesNoDDL ==
    Len(schema) = 0 =>
        /\ IssuedAny(DDLOps \ {"SELECT EXISTS"}) = {}
        /\ err.msg # "schema already exists"

\* C16 as the code has it: with zero tables no table-level statement and no
\* bulk load is issued and no table step fails, but outside data_only mode
\* the schema is still prepared (DROP SCHEMA / CREATE SCHEMA, or the abort of
\* on_schema_exists = error), the hooks still run and every step of the mode
\* is still entered.
SchemaOps == {"SELECT EXISTS", "DROP SCHEMA", "CREATE SCHEMA"}

TableSteps ==
    {"createTables", "disableTriggers", "enableTriggers", "setLogged",
     "addPrimaryKeys", "addIndexes", "cleanOrphans", "addForeignKeys",
     "resetSequences", "addUnsignedChecks", "createTriggers"}

C16_ZeroTablesSchemaOnly ==
    Len(schema) = 0 =>
        /\ \A i \in 1..Len(trace) : trace[i].op \in SchemaOps \cup {"HOOK"}
        /\ cfg.DataOnly => IssuedAny(SchemaOps) = {}
        /\ err.msg \notin TableSteps \cup {"migrateData", "table(s) failed migration",
                                           "unsupported source column types detected"}
        /\ (pc = "done" /\ ~cfg.DataOnly) =>
               /\ Cardinality(Issued("CREATE SCHEMA")) = 1
               /\ target.schemaExists
               /\ cfg.OnSchemaExists = "recreate" =>
                      Before(Issued("DROP SCHEMA"), Issued("CREATE SCHEMA"))
                          /\ Issued("DROP SCHEMA") # {}
               /\ target = [EmptyTarget(schema) EXCEPT !.schemaExists = TRUE]
        /\ pc = "done" =>
               /\ err = NoError
               /\ \A st \in {"typecheck", "connect", "resetSequences", "after_all"} :
                      Entered(st)
               /\ ~cfg.SchemaOnly => Entered("migrateData")
               /\ ~cfg.DataOnly => Entered("createTables") /\ Entered("addForeignKeys")

C16_Witness ==
    /\ Len(schema) = 0
    /\ pc = "done"
    /\ Mode(cfg) = "full" /\ cfg.OnSchemaExists = "recreate"
    /\ Issued("DROP SCHEMA") # {} /\ Issued("CREATE SCHEMA") # {}
    /\ Cardinality(Issued("HOOK")) = 4 * MaxHookStmts

(***************************************************************************)
(* splitStatements: the statement splitter of the hook runner.  A text is  *)
(* a sequence of one-character strings.                                    *)
(***************************************************************************)
MaxTokens == 4

\* A cut set that takes single quotes for white space.
WhiteSpace_AndQuotes == {" ", "\t", "\n", "\r", "'"}

\* strings.TrimSpace
WhiteSpace == {" ", "\t", "\n", "\r"}

RECURSIVE TrimLeft(_)
TrimLeft(t) ==
    IF Len(t) > 0 /\ Head(t) \in WhiteSpace THEN TrimLeft(Tail(t)) ELSE t

RECURSIVE TrimRight(_)
TrimRight(t) ==
    IF Len(t) > 0 /\ t[Len(t)] \in WhiteSpace
    THEN TrimRight(SubSeq(t, 1, Len(t) - 1)) ELSE t

TrimSpace(t) == TrimRight(TrimLeft(t))

\* strings.HasPrefix(sql[i:], tag)
HasPrefixAt(sql, i, tag) ==
    /\ i + Len(tag) - 1 <= Len(sql)
    /\ SubSeq(sql, i, i + Len(tag) - 1) = tag

LowerLetters ==
    {"a", "b", "c", "d", "e", "f", "g", "h", "i", "j", "k", "l", "m",
     "n", "o", "p", "q", "r", "s", "t", "u", "v", "w", "x", "y", "z"}
UpperLetters ==
    {"A", "B", "C", "D", "E", "F", "G", "H", "I", "J", "K", "L", "M",
     "N", "O", "P", "Q", "R", "S", "T", "U", "V", "W", "X", "Y", "Z"}
DigitChars == {"0", "1", "2", "3", "4", "5", "6", "7", "8", "9"}

isDollarTagStart(c) == c = "_" \/ c \in LowerLetters \/ c \in UpperLetters
isDollarTagChar(c) == isDollarTagStart(c) \/ c \in DigitChars

\* The end of the run of tag characters that starts at j.
RECURSIVE TagEnd(_, _)
TagEnd(sql, j) ==
    IF j <= Len(sql) /\ isDollarTagChar(sql[j]) THEN TagEnd(sql, j + 1) ELSE j

\* A tag parser that knows the anonymous tag only.
parseDollarTag_OnlyAnonymous(sql, i) ==
    IF i + 1 <= Len(sql) /\ sql[i] = "$" /\ sql[i + 1] = "$"
    THEN << "$", "$" >> ELSE << >>

\* parseDollarTag: the tag that opens at i, or the empty text for none.
parseDollarTag(sql, i) ==
    IF i > Len(sql) \/ sql[i] # "$" THEN << >>
    ELSE IF i + 1 <= Len(sql) /\ sql[i + 1] = "$" THEN << "$", "$" >>
    ELSE IF i + 1 > Len(sql) \/ ~isDollarTagStart(sql[i + 1]) THEN << >>
    ELSE LET j == TagEnd(sql, i + 1) IN
         IF j <= Len(sql) /\ sql[j] = "$" THEN SubSeq(sql, i, j) ELSE << >>

\* The splitter's local variables before the first character.
SplitStart ==
    [stmts |-> << >>, current |-> << >>, inSingleQuote |-> FALSE,
     inDoubleQuote |-> FALSE, inLineComment |-> FALSE, blockCommentDepth |-> 0,
     dollarTag |-> << >>]

\* The statement list with the trimmed buffer appended, unless it is empty.
Emit(stmts, current) ==
    IF TrimSpace(current) # << >> THEN Append(stmts, TrimSpace(current)) ELSE stmts

NextIs(sql, i, c) == i + 1 <= Len(sql) /\ sql[i + 1] = c

\* One iteration of the loop over the bytes of sql, from index i (1-based),
\* followed by the rest of the loop.
RECURSIVE splitLoop(_, _, _)
splitLoop(sql, i, st) ==
    IF i > Len(sql) THEN st
    ELSE LET c == sql[i]
             put == [st EXCEPT !.current = Append(@, c)]
         IN
         IF st.inLineComment THEN
             splitLoop(sql, i + 1,
                       IF c = "\n" THEN [put EXCEPT !.inLineComment = FALSE] ELSE put)
         ELSE IF st.blockCommentDepth > 0 THEN
             IF c = "/" /\ NextIs(sql, i, "*") THEN
                 splitLoop(sql, i + 2,
                           [put EXCEPT !.current = Append(@, "*"),
                                       !.blockCommentDepth = @ + 1])
             ELSE IF c = "*" /\ NextIs(sql, i, "/") THEN
                 splitLoop(sql, i + 2,
                           [put EXCEPT !.current = Append(@, "/"),
                                       !.blockCommentDepth = @ - 1])
             ELSE splitLoop(sql, i + 1, put)
         ELSE IF st.inSingleQuote THEN
             IF c = "'" /\ NextIs(sql, i, "'") THEN
                 splitLoop(sql, i + 2, [put EXCEPT !.current = Append(@, "'")])
             ELSE IF c = "'" THEN
                 splitLoop(sql, i + 1, [put EXCEPT !.inSingleQuote = FALSE])
             ELSE splitLoop(sql, i + 1, put)
         ELSE IF st.inDoubleQuote THEN
             IF c = "\"" /\ NextIs(sql, i, "\"") THEN
                 splitLoop(sql, i + 2, [put EXCEPT !.current = Append(@, "\"")])
             ELSE IF c = "\"" THEN
                 splitLoop(sql, i + 1, [put EXCEPT !.inDoubleQuote = FALSE])
             ELSE splitLoop(sql, i + 1, put)
         ELSE IF st.dollarTag # << >> THEN
             IF HasPrefixAt(sql, i, st.dollarTag) THEN
                 splitLoop(sql, i + Len(st.dollarTag),
                           [st EXCEPT !.current = @ \o st.dollarTag,
                                      !.dollarTag = << >>])
             ELSE splitLoop(sql, i + 1, put)
         ELSE IF c = "-" /\ NextIs(sql, i, "-") THEN
             splitLoop(sql, i + 2,
                       [put EXCEPT !.current = Append(@, "-"), !.inLineComment = TRUE])
         ELSE IF c = "/" /\ NextIs(sql, i, "*") THEN
             splitLoop(sql, i + 2,
                       [put EXCEPT !.current = Append(@, "*"), !.blockCommentDepth = 1])
         ELSE IF c = "'" THEN
             splitLoop(sql, i + 1, [put EXCEPT !.inSingleQuote = TRUE])
         ELSE IF c = "\"" THEN
             splitLoop(sql, i + 1, [put EXCEPT !.inDoubleQuote = TRUE])
         ELSE IF c = "$" THEN
             LET tag == parseDollarTag(sql, i) IN
             IF tag # << >> THEN
                 splitLoop(sql, i + Len(tag),
                           [st EXCEPT !.current = @ \o tag, !.dollarTag = tag])
             ELSE splitLoop(sql, i + 1, put)
         ELSE IF c = ";" THEN
             splitLoop(sql, i + 1,
                       [st EXCEPT !.stmts = Emit(st.stmts, st.current),
                                  !.current = << >>])
         ELSE splitLoop(sql, i + 1, put)

\* splitStatements: the loop, then the trailing statement without semicolon.
splitStatements(sql) ==
    LET st == splitLoop(sql, 1, SplitStart) IN Emit(st.stmts, st.current)

\* strings.Join(stmts, ";")
RECURSIVE JoinStatements(_)
JoinStatements(stmts) ==
    IF stmts = << >> THEN << >>
    ELSE IF Len(stmts) = 1 THEN Head(stmts)
    ELSE Head(stmts) \o << ";" >> \o JoinStatements(Tail(stmts))

\* The texts given to the splitter: up to MaxTokens lexical tokens in a row.
Tokens ==
    { << "a" >>, << ";" >>, << "'" >>, << "\"" >>, << "-", "-" >>, << "\n" >>,
      << "/", "*" >>, << "*", "/" >>, << "$", "$" >>, << "$", "a", "$" >> }

RECURSIVE Concat(_)
Concat(ts) == IF ts = << >> THEN << >> ELSE Head(ts) \o Concat(Tail(ts))

Texts == UNION { { Concat(ts) : ts \in [1..n -> Tokens] } : n \in 0..MaxTokens }

(***************************************************************************)
(* Identifiers: toSnakeCase, pgNeedsQuoting and pgIdent.  A Go string is a  *)
(* sequence of bytes; ranging over it, or converting it to runes, decodes   *)
(* UTF-8 and yields U+FFFD for every byte that does not decode.             *)
(***************************************************************************)
MaxNameLen == 3

IsCont(s, i) == i <= Len(s) /\ s[i] \in 128..191

\* utf8.DecodeRune at index i: the rune and the number of bytes it took.
DecodeRune(s, i) ==
    LET b == s[i]
        v2 == (b - 192) * 64 + (s[i + 1] - 128)
        v3 == (b - 224) * 4096 + (s[i + 1] - 128) * 64 + (s[i + 2] - 128)
        v4 == (b - 240) * 262144 + (s[i + 1] - 128) * 4096
              + (s[i + 2] - 128) * 64 + (s[i + 3] - 128)
        bad == [r |-> 65533, w |-> 1]
    IN IF b < 128 THEN [r |-> b, w |-> 1]
       ELSE IF b \in 194..223 /\ IsCont(s, i + 1) THEN [r |-> v2, w |-> 2]
       ELSE IF b \in 224..239 /\ IsCont(s, i + 1) /\ IsCont(s, i + 2)
            THEN IF v3 >= 2048 /\ v3 \notin 55296..57343
                 THEN [r |-> v3, w |-> 3] ELSE bad
       ELSE IF b \in 240..244 /\ IsCont(s, i + 1) /\ IsCont(s, i + 2) /\ IsCont(s, i + 3)
            THEN IF v4 \in 65536..1114111 THEN [r |-> v4, w |-> 4] ELSE bad
       ELSE bad

\* []rune(s), from byte index i on.
RECURSIVE Runes(_, _)
Runes(s, i) ==
    IF i > Len(s) THEN << >>
    ELSE << DecodeRune(s, i).r >> \o Runes(s, i + DecodeRune(s, i).w)

\* The UTF-8 bytes of a rune.
EncodeRune(r) ==
    IF r < 128 THEN << r >>
    ELSE IF r < 2048 THEN << 192 + (r \div 64), 128 + (r % 64) >>
    ELSE IF r < 65536
         THEN << 224 + (r \div 4096), 128 + ((r \div 64) % 64), 128 + (r % 64) >>
    ELSE << 240 + (r \div 262144), 128 + ((r \div 4096) % 64),
            128 + ((r \div 64) % 64), 128 + (r % 64) >>

\* string(runes)
String(runes) == Concat([i \in 1..Len(runes) |-> EncodeRune(runes[i])])

\* unicode.IsUpper, IsLower, IsDigit and ToLower on the runes up to U+00FF
\* and on U+FFFD, the runes the names explored are made of.
IsUpper(r) == r \in 65..90 \/ (r \in 192..222 /\ r # 215)
IsLower(r) == r \in 97..122 \/ r = 181 \/ (r \in 223..255 /\ r # 247)
IsDigit(r) == r \in 48..57
ToLower(r) == IF IsUpper(r) THEN r + 32 ELSE r

\* byte(r): the conversion keeps the low eight bits.
Byte(r) == r % 256

\* The bytes toSnakeCase appends for the rune at index i.
SnakePiece(runes, i) ==
    LET r == runes[i] IN
    IF IsUpper(r)
    THEN (IF i > 1 /\ (IsLower(runes[i - 1]) \/ IsDigit(runes[i - 1]))
          THEN << 95 >>
          ELSE IF /\ i > 1
                  /\ IsUpper(runes[i - 1])
                  /\ i + 1 <= Len(runes)
                  /\ IsLower(runes[i + 1])
          THEN << 95 >>
          ELSE << >>) \o << Byte(ToLower(r)) >>
    ELSE << Byte(r) >>

toSnakeCase(s) ==
    LET runes == Runes(s, 1) IN
    Concat([i \in 1..Len(runes) |-> SnakePiece(runes, i)])

\* Folding without snake case: the whole name in lowercase.
toLowerCase(s) ==
    LET runes == Runes(s, 1) IN String([i \in 1..Len(runes) |-> ToLower(runes[i])])

\* fold(name, snake_case)
fold(name, snake) == IF snake THEN toSnakeCase(name) ELSE toLowerCase(name)

\* pgReservedWords: the words of the table of up to three letters
\* (all and any as asc do end for in is not on or to).
pgReservedWords ==
    { << 97, 108, 108 >>, << 97, 110, 100 >>, << 97, 110, 121 >>, << 97, 115 >>,
      << 97, 115, 99 >>, << 100, 111 >>, << 101, 110, 100 >>, << 102, 111, 114 >>,
      << 105, 110 >>, << 105, 115 >>, << 110, 111, 116 >>, << 111, 110 >>,
      << 111, 114 >>, << 116, 111 >> }

\* The byte index (from 1) at which each rune of the name starts.
RECURSIVE RuneStarts(_, _)
RuneStarts(s, i) ==
    IF i > Len(s) THEN {} ELSE {i} \cup RuneStarts(s, i + DecodeRune(s, i).w)

pgNeedsQuoting(name) ==
    \E i \in RuneStarts(name, 1) :
        LET r == DecodeRune(name, i).r IN
        /\ ~(r \in 97..122 \/ r = 95)
        /\ ~(i > 1 /\ (r \in 48..57 \/ r = 36))

pgIdent(name) ==
    IF name \in pgReservedWords \/ pgNeedsQuoting(name)
    THEN << 34 >> \o name \o << 34 >>
    ELSE name

\* The names given to the functions: up to MaxNameLen runes out of
\* a s B _ 1 $ " and e-acute, as UTF-8.
NameRunes == {97, 115, 66, 95, 49, 36, 34, 233}

Names == UNION { { String(rs) : rs \in [1..n -> NameRunes] } : n \in 1..MaxNameLen }

(***************************************************************************)
(* Column types as MySQL reports them (COLUMN_TYPE), and the tests the     *)
(* type mapper and the unsigned-check generator make on them.  A column    *)
(* type is a sequence of one-character strings.                            *)
(***************************************************************************)
TinyintWord == << "t", "i", "n", "y", "i", "n", "t" >>
IntWord == << "i", "n", "t" >>
UnsignedWord == << "u", "n", "s", "i", "g", "n", "e", "d" >>

\* The characters of a DATA_TYPE value.
TypeWord(dataType) == IF dataType = "tinyint" THEN TinyintWord ELSE IntWord

\* strings.Contains
Contains(t, w) == \E i \in 1..Len(t) : HasPrefixAt(t, i, w)

LowerSeq ==
    << "a", "b", "c", "d", "e", "f", "g", "h", "i", "j", "k", "l", "m",
       "n", "o", "p", "q", "r", "s", "t", "u", "v", "w", "x", "y", "z" >>
UpperSeq ==
    << "A", "B", "C", "D", "E", "F", "G", "H", "I", "J", "K", "L", "M",
       "N", "O", "P", "Q", "R", "S", "T", "U", "V", "W", "X", "Y", "Z" >>

\* strings.ToLower on ASCII text
LowerText(t) ==
    [i \in 1..Len(t) |->
        IF t[i] \in UpperLetters
        THEN LowerSeq[CHOOSE n \in 1..Len(UpperSeq) : UpperSeq[n] = t[i]]
        ELSE t[i]]

DigitSeq == << "0", "1", "2", "3", "4", "5", "6", "7", "8", "9" >>

\* strconv.ParseInt(t, 10, 64): the value, or -1 when t is not a number.
RECURSIVE ParseInt(_)
ParseInt(t) ==
    IF t = << >> \/ \E i \in 1..Len(t) : t[i] \notin DigitChars THEN -1
    ELSE LET d == (CHOOSE n \in 1..Len(DigitSeq) : DigitSeq[n] = t[Len(t)]) - 1 IN
         IF Len(t) = 1 THEN d
         ELSE ParseInt(SubSeq(t, 1, Len(t) - 1)) * 10 + d

\* mysqlColumnTypeLength: the declared (n) of the column type, -1 for none.
mysqlColumnTypeLength(columnType, baseType) ==
    LET ct == LowerText(TrimSpace(columnType))
        prefix == TypeWord(baseType) \o << "(" >>
        rest == SubSeq(ct, Len(prefix) + 1, Len(ct))
        closers == { i \in 1..Len(rest) : rest[i] = ")" }
    IN IF ~HasPrefixAt(ct, 1, prefix) \/ closers = {} THEN -1
       ELSE LET end == CHOOSE i \in closers : \A j \in closers : i <= j IN
            ParseInt(TrimSpace(SubSeq(rest, 1, end - 1)))

isMySQLTypeWithLength(col, baseType, wantLength) ==
    /\ col.DataType = baseType
    /\ IF mysqlColumnTypeLength(col.ColumnType, baseType) >= 0
       THEN mysqlColumnTypeLength(col.ColumnType, baseType) = wantLength
       ELSE TrimSpace(col.ColumnType) = << >> /\ col.Precision = wantLength

isTinyInt1Column(col) == isMySQLTypeWithLength(col, "tinyint", 1)

\* mysqlMapType: the column is mapped to boolean.
MapsToBoolean(col, typeMap) == isTinyInt1Column(col) /\ typeMap.TinyInt1AsBoolean

\* The column introspection reads for a declared type: COLUMN_TYPE as
\* declared, NUMERIC_PRECISION 3 for tinyint and 10 for int.
SourceColumn(dataType, width, unsigned) ==
    LET columnType == TypeWord(dataType) \o width
                      \o (IF unsigned THEN << " " >> \o UnsignedWord ELSE << >>)
    IN [PGName |-> "c", DataType |-> dataType, ColumnType |-> columnType,
        Unsigned |-> Contains(columnType, UnsignedWord),
        Precision |-> IF dataType = "tinyint" THEN 3 ELSE 10,
        Extra |-> {}]

Widths == { << >>, << "(", "1", ")" >>, << "(", "4", ")" >>, << "(", "1", "1", ")" >> }

SourceColumns ==
    { SourceColumn(d, w, u) : d \in {"tinyint", "int"}, w \in Widths, u \in BOOLEAN }

(***************************************************************************)
(* Case-insensitive collations (collation_compat.go)                       *)
(***************************************************************************)
\* strings.HasSuffix
HasSuffix(t, w) == Len(w) <= Len(t) /\ SubSeq(t, Len(t) - Len(w) + 1, Len(t)) = w

isCICollation(collation) == HasSuffix(LowerText(collation), << "_", "c", "i" >>)

\* isTextLikePGType of the type the mapper gives the column: varchar(n) for
\* varchar and char, text for text.
isTextLikePGType(col) == col.DataType \in {"varchar", "char", "text"}

\* pgTypeForCollation: TRUE when the column is created with type citext
\* (no collation_map entry is configured).
pgTypeForCollation(col, c) ==
    /\ c.CIAsCitext
    /\ "Collation" \in DOMAIN col
    /\ isCICollation(col.Collation)
    /\ isTextLikePGType(col)

\* The tables whose CREATE TABLE names the type citext.
CitextTables(s, c) ==
    { t \in 1..Len(s) : \E j \in 1..Len(s[t].Columns) : pgTypeForCollation(s[t].Columns[j], c) }

(***************************************************************************)
(* resetSequences: the names the three statements of a sequence reset carry.*)
(* Texts are byte sequences, as in the identifier functions.               *)
(***************************************************************************)
Dot == << 46 >>
SeqSuffix == << 95, 115, 101, 113 >>
IdColumn == << 105, 100 >>

\* fmt.Sprintf("%s_%s_seq", t.PGName, col.PGName)
seqName(table, col) == table \o << 95 >> \o col \o SeqSuffix

\* The qualified names in CREATE SEQUENCE IF NOT EXISTS %s.%s, setval('%s.%s',
\* ...) and nextval('%s.%s').
resetSequencesNames(pgSchema, table, col) ==
    [create  |-> pgIdent(pgSchema) \o Dot \o pgIdent(seqName(table, col)),
     setval  |-> pgSchema \o Dot \o seqName(table, col),
     nextval |-> pgSchema \o Dot \o seqName(table, col)]

\* Schema names of the configuration (one rune) and table names as
\* introspection folds them.
SchemaNames == { String(rs) : rs \in [1..1 -> NameRunes] }
TableNames ==
    { toSnakeCase(String(rs)) :
        rs \in UNION { [1..n -> NameRunes] : n \in 1..(MaxNameLen - 1) } }

(***************************************************************************)
(* The functions on their own: a call is drawn, then applied.  The         *)
(* migration is not running, so its variables hold their idle values.      *)
(***************************************************************************)
SplitCalls ==
    { [fn |-> "splitStatements", arg |-> t, out |-> << >>, prev |-> << >>,
       round |-> 0] : t \in Texts }

IdentCalls ==
    { [fn |-> "pgIdent", arg |-> n, out |-> << >>, prev |-> << >>, round |-> 0] :
        n \in Names }

FoldCalls ==
    { [fn |-> "fold", arg |-> [name |-> n, snake |-> b], out |-> << >>,
       prev |-> << >>, round |-> 0] : n \in Names, b \in BOOLEAN }

CheckCalls ==
    { [fn |-> "unsignedCheckExpr",
       arg |-> [col |-> c, typeMap |-> [TinyInt1AsBoolean |-> b]],
       out |-> << >>, prev |-> << >>, round |-> 0] :
        c \in SourceColumns, b \in BOOLEAN }

SequenceCalls ==
    { [fn |-> "resetSequences", arg |-> [pgSchema |-> n, table |-> t, col |-> IdColumn],
       out |-> << >>, prev |-> << >>, round |-> 0] :
        n \in SchemaNames, t \in TableNames }

FnCalls == SplitCalls \cup IdentCalls \cup FoldCalls \cup CheckCalls \cup SequenceCalls

FnInit ==
    /\ call \in FnCalls
    /\ cfg = << >>
    /\ schema = << >>
    /\ pc = "idle"
    /\ k = 0
    /\ hist = << >>
    /\ trace = << >>
    /\ err = NoError
    /\ target = << >>
    /\ spawned = 0
    /\ task = << >>
    /\ errCh = << >>
    /\ tx = "none"

pipelineVars == <<cfg, schema, pc, k, hist, trace, err, target, spawned, task, errCh, tx>>

\* loadAndExecSQLFiles hands the text of a hook file to the splitter.
CallSplitStatements ==
    /\ call.fn = "splitStatements"
    /\ call.round = 0
    /\ call' = [call EXCEPT !.out = splitStatements(call.arg), !.round = 1]
    /\ UNCHANGED pipelineVars

\* The statements of the first split, rejoined with ";" and split again.
Resplit ==
    /\ call.fn = "splitStatements"
    /\ call.round = 1
    /\ call' = [call EXCEPT !.arg = JoinStatements(call.out),
                            !.prev = call.out,
                            !.out = splitStatements(JoinStatements(call.out)),
                            !.round = 2]
    /\ UNCHANGED pipelineVars

\* The DDL generators route a name through pgIdent.
CallPgIdent ==
    /\ call.fn = "pgIdent"
    /\ call.round = 0
    /\ call' = [call EXCEPT !.out = pgIdent(call.arg), !.round = 1]
    /\ UNCHANGED pipelineVars

\* Introspection folds a source name.
CallFold ==
    /\ call.fn = "fold"
    /\ call.round = 0
    /\ call' = [call EXCEPT !.out = fold(call.arg.name, call.arg.snake), !.round = 1]
    /\ UNCHANGED pipelineVars

\* The folded name folded again in the same mode.
Refold ==
    /\ call.fn = "fold"
    /\ call.round = 1
    /\ call' = [call EXCEPT !.arg = [name |-> call.out, snake |-> call.arg.snake],
                            !.prev = call.out,
                            !.out = fold(call.out, call.arg.snake),
                            !.round = 2]
    /\ UNCHANGED pipelineVars

\* addUnsignedChecks asks for the check expression of a column.
CallUnsignedCheckExpr ==
    /\ call.fn = "unsignedCheckExpr"
    /\ call.round = 0
    /\ call' = [call EXCEPT !.out = unsignedCheckExpr(call.arg.col, call.arg.typeMap),
                            !.round = 1]
    /\ UNCHANGED pipelineVars

\* resetSequences builds the statements of one auto_increment column.
CallResetSequences ==
    /\ call.fn = "resetSequences"
    /\ call.round = 0
    /\ call' = [call EXCEPT !.out = resetSequencesNames(call.arg.pgSchema, call.arg.table,
                                                        call.arg.col),
                            !.round = 1]
    /\ UNCHANGED pipelineVars

FnNext ==
    \/ CallSplitStatements
    \/ Resplit
    \/ CallPgIdent
    \/ CallFold
    \/ Refold
    \/ CallUnsignedCheckExpr
    \/ CallResetSequences

FnSpec == FnInit /\ [][FnNext]_vars

(***************************************************************************)
(* Vocabulary of the splitter properties: the opaque regions of a text,    *)
(* read region by region.                                                  *)
(***************************************************************************)
IsAt(sql, i, w) == HasPrefixAt(sql, i, w)

\* The index after the line comment whose body starts at i.
RECURSIVE AfterLine(_, _)
AfterLine(sql, i) ==
    IF i > Len(sql) THEN i
    ELSE IF sql[i] = "\n" THEN i + 1 ELSE AfterLine(sql, i + 1)

\* The index after the block comment that is open d levels deep at i.
RECURSIVE AfterBlock(_, _, _)
AfterBlock(sql, i, d) ==
    IF i > Len(sql) THEN i
    ELSE IF IsAt(sql, i, << "/", "*" >>) THEN AfterBlock(sql, i + 2, d + 1)
    ELSE IF IsAt(sql, i, << "*", "/" >>)
         THEN IF d = 1 THEN i + 2 ELSE AfterBlock(sql, i + 2, d - 1)
    ELSE AfterBlock(sql, i + 1, d)

\* The index after the literal or identifier quoted by q whose body starts at i.
RECURSIVE AfterQuoted(_, _, _)
AfterQuoted(sql, i, q) ==
    IF i > Len(sql) THEN i
    ELSE IF IsAt(sql, i, << q, q >>) THEN AfterQuoted(sql, i + 2, q)
    ELSE IF sql[i] = q THEN i + 1
    ELSE AfterQuoted(sql, i + 1, q)

\* The index after the dollar-quoted block of this tag whose body starts at i.
RECURSIVE AfterDollar(_, _, _)
AfterDollar(sql, i, tag) ==
    IF i > Len(sql) THEN i
    ELSE IF IsAt(sql, i, tag) THEN i + Len(tag)
    ELSE AfterDollar(sql, i + 1, tag)

\* The dollar tag that opens at i: $$, or $name$ with name an identifier.
DollarOpen(sql, i) ==
    LET closers == { j \in (i + 1)..Len(sql) : sql[j] = "$" } IN
    IF sql[i] # "$" \/ closers = {} THEN << >>
    ELSE LET j == CHOOSE x \in closers : \A y \in closers : x <= y
             name == SubSeq(sql, i + 1, j - 1)
         IN IF /\ name # << >> => isDollarTagStart(name[1])
               /\ \A n \in 1..Len(name) : isDollarTagChar(name[n])
            THEN SubSeq(sql, i, j) ELSE << >>

\* The positions, from i on, of the semicolons outside every opaque region.
RECURSIVE TopSemicolons(_, _)
TopSemicolons(sql, i) ==
    IF i > Len(sql) THEN {}
    ELSE IF IsAt(sql, i, << "-", "-" >>) THEN TopSemicolons(sql, AfterLine(sql, i + 2))
    ELSE IF IsAt(sql, i, << "/", "*" >>) THEN TopSemicolons(sql, AfterBlock(sql, i + 2, 1))
    ELSE IF sql[i] \in {"'", "\""} THEN TopSemicolons(sql, AfterQuoted(sql, i + 1, sql[i]))
    ELSE IF DollarOpen(sql, i) # << >>
         THEN TopSemicolons(sql, AfterDollar(sql, i + Len(DollarOpen(sql, i)),
                                             DollarOpen(sql, i)))
    ELSE IF sql[i] = ";" THEN {i} \cup TopSemicolons(sql, i + 1)
    ELSE TopSemicolons(sql, i + 1)

\* The text cut at the given positions, from index from on.
RECURSIVE CutAt(_, _, _)
CutAt(sql, from, cuts) ==
    IF cuts = {} THEN << SubSeq(sql, from, Len(sql)) >>
    ELSE LET c == CHOOSE x \in cuts : \A y \in cuts : x <= y IN
         << SubSeq(sql, from, c - 1) >> \o CutAt(sql, c + 1, cuts \ {c})

NonEmpty(t) == t # << >>

\* The statements of a text: its pieces between top-level semicolons,
\* trimmed, the empty ones left out.
Statements(sql) ==
    LET pieces == CutAt(sql, 1, TopSemicolons(sql, 1)) IN
    SelectSeq([n \in 1..Len(pieces) |-> TrimSpace(pieces[n])], NonEmpty)

Semicolons(sql) == { i \in 1..Len(sql) : sql[i] = ";" }

Split == call.fn = "splitStatements" /\ call.round >= 1

\* C17: the splitter ends a statement at a semicolon only outside line
\* comments, nested block comments, quoted literals and identifiers and
\* dollar-quoted blocks; every statement it emits is trimmed and non-empty,
\* and a non-empty buffer left after the last semicolon is emitted too.
C17_SplitsAtTopLevelOnly ==
    Split =>
        /\ call.out = Statements(call.arg)
        /\ \A n \in 1..Len(call.out) :
              /\ call.out[n] # << >>
              /\ TrimSpace(call.out[n]) = call.out[n]
        /\ LET cuts == TopSemicolons(call.arg, 1)
               last == IF cuts = {} THEN 0
                       ELSE CHOOSE x \in cuts : \A y \in cuts : y <= x
               rest == TrimSpace(SubSeq(call.arg, last + 1, Len(call.arg)))
           IN rest # << >> => /\ call.out # << >>
                              /\ call.out[Len(call.out)] = rest

\* A semicolon inside a block comment nested two deep, where a splitter
\* without nesting would cut.
C17_Witness ==
    /\ Split
    /\ call.arg = << "/", "*", "/", "*", "*", "/", ";" >>
    /\ call.out = << call.arg >>

Resplitted == call.fn = "splitStatements" /\ call.round = 2

\* C18 as stated: splitting, rejoining the statements with ";" and
\* splitting again yields the same list of statements.
C18_SplitIdempotent == Resplitted => call.out = call.prev

\* The statement, read on its own, ends inside a line comment.
EndsInLineComment(stmt) == splitLoop(stmt, 1, SplitStart).inLineComment

\* C18, amended: splitting again the statements rejoined with ";" yields the
\* same list whenever no statement but the last ends inside a line comment.
C18_SplitIdempotentOutsideComments ==
    (/\ Resplitted
     /\ \A n \in 1..(Len(call.prev) - 1) : ~EndsInLineComment(call.prev[n]))
        => call.out = call.prev

\* Two statements came out of the first split, the last of them ending
\* inside a line comment, and the second split returned them again.
C18_Witness ==
    /\ Resplitted
    /\ Len(call.prev) >= 2
    /\ EndsInLineComment(call.prev[Len(call.prev)])
    /\ call.out = call.prev

(***************************************************************************)
(* Vocabulary of the identifier properties: how the target reads an        *)
(* identifier back.                                                        *)
(***************************************************************************)
\* What is read when the text is not one identifier.
NotAnIdentifier == << >>

\* The body of a quoted identifier from index i on: up to the closing quote,
\* two quotes in a row standing for one.  The text must end with the
\* closing quote and the name must not be empty.
RECURSIVE ParseQuoted(_, _, _)
ParseQuoted(t, i, acc) ==
    IF i > Len(t) THEN NotAnIdentifier
    ELSE IF t[i] = 34 /\ i + 1 <= Len(t) /\ t[i + 1] = 34
         THEN ParseQuoted(t, i + 2, Append(acc, 34))
    ELSE IF t[i] = 34 THEN (IF i = Len(t) THEN acc ELSE NotAnIdentifier)
    ELSE ParseQuoted(t, i + 1, Append(acc, t[i]))

IdentStart(b) == b \in 97..122 \/ b \in 65..90 \/ b = 95 \/ b >= 128
IdentCont(b) == IdentStart(b) \/ b \in 48..57 \/ b = 36
DownCase(t) == [i \in 1..Len(t) |-> IF t[i] \in 65..90 THEN t[i] + 32 ELSE t[i]]

\* The name the target reads from an identifier as emitted in DDL.
ParseIdent(t) ==
    IF t = << >> THEN NotAnIdentifier
    ELSE IF t[1] = 34 THEN ParseQuoted(t, 2, << >>)
    ELSE IF /\ IdentStart(t[1])
            /\ \A i \in 2..Len(t) : IdentCont(t[i])
            /\ DownCase(t) \notin pgReservedWords
         THEN DownCase(t)
    ELSE NotAnIdentifier

\* The name with every double quote doubled.
RECURSIVE DoubleQuotes(_)
DoubleQuotes(name) ==
    IF name = << >> THEN << >>
    ELSE (IF Head(name) = 34 THEN << 34, 34 >> ELSE << Head(name) >>)
         \o DoubleQuotes(Tail(name))

\* Lowercase ASCII letters and underscores, digits or $ after the first.
PlainName(name) ==
    /\ name # << >>
    /\ \A i \in 1..Len(name) :
          \/ name[i] \in 97..122
          \/ name[i] = 95
          \/ i > 1 /\ (name[i] \in 48..57 \/ name[i] = 36)

Quoted == call.fn = "pgIdent" /\ call.round = 1

\* C19: quote(name) is the bare name only when the name is plain and not a
\* reserved word; otherwise it is the name in double quotes with every
\* double quote inside doubled; read back, the identifier is the name.
C19_QuoteRoundTrips ==
    Quoted =>
        /\ call.out = (IF PlainName(call.arg) /\ call.arg \notin pgReservedWords
                       THEN call.arg
                       ELSE << 34 >> \o DoubleQuotes(call.arg) \o << 34 >>)
        /\ ParseIdent(call.out) = call.arg

Folded == call.fn = "fold" /\ call.round = 2

\* C20: folding is idempotent in both modes: a folded name folded again in
\* the same mode is unchanged.
C20_FoldIdempotent == Folded => call.out = call.prev

Checked == call.fn = "unsignedCheckExpr" /\ call.round = 1

\* C21: with tinyint1_as_boolean, no unsigned CHECK is generated for a
\* tinyint(1) column coerced to boolean, tinyint(1) being told by the
\* declared length of the column type and not by the precision.
C21_NoCheckOnBooleanColumn ==
    (Checked /\ MapsToBoolean(call.arg.col, call.arg.typeMap)) => call.out = FALSE

\* C22: with ci_as_citext, the citext extension is installed once, before
\* any table is created.
C22_CitextBeforeTables ==
    (cfg.CIAsCitext /\ Issued("CREATE TABLE") # {}) =>
        /\ Cardinality(Issued("CREATE EXTENSION")) = 1
        /\ Before(Issued("CREATE EXTENSION"), Issued("CREATE TABLE"))

\* The task of table t is reading from the source or writing to the target.
Copying(t) == task[t].pc \in {"open", "count", "acquire", "select", "copy"}

\* C23: in parallel streaming one task is spawned per table, at most
\* `workers` tasks are copying at any moment, and a task reads from the source
\* or writes to the target only while it holds a semaphore slot.
C23_WorkersBound ==
    Parallel =>
        /\ spawned <= Len(schema)
        /\ \A t \in Tables : (task[t].pc # "idle") = (t <= spawned)
        /\ Cardinality({ t \in Tables : Copying(t) }) <= cfg.Workers
        /\ SemHeld <= cfg.Workers
        /\ \A t \in Tables : Copying(t) => task[t].sem
        /\ \A t \in Tables : task[t].conn => task[t].sem

\* Every slot is taken while a spawned task waits for one.
C23_Witness ==
    /\ Streaming /\ Parallel
    /\ SemHeld = cfg.Workers
    /\ \E t \in Tables : task[t].pc = "sem"
    /\ \E t \in Tables : task[t].pc = "copy" /\ task[t].copied > 0

\* The task of table t has been started and has not ended.
Alive(t) == task[t].pc \notin {"idle", "done", "failed"}

\* C24: the parallel streamer returns only after every spawned task has
\* finished: outside the streaming step no table task is alive, whatever hook
\* or post-load step is executing, and once the streamer has returned every
\* table's task has ended.
C24_NoCopyOutsideStreamer ==
    (Parallel /\ ~Streaming) =>
        /\ \A t \in Tables : ~Alive(t)
        /\ \A t \in Tables : ~task[t].sem /\ ~task[t].conn
        /\ Entered("migrateData") =>
              /\ spawned = Len(schema)
              /\ \A t \in Tables : Finished(t)

\* A post-load step is issuing statements after two tables were copied in
\* parallel, one of them with rows.
C24_Witness ==
    /\ Parallel
    /\ IsPostStep(pc) /\ k > 0
    /\ Len(schema) >= 2
    /\ \A t \in Tables : task[t].pc = "done"
    /\ \E t \in Tables : task[t].copied > 0

\* The tasks that hold a connection of the target pool.
ConnHeld == { t \in Tables : task[t].conn }

\* C25 at one step: a task takes a target connection only at pool.Acquire,
\* holds it through SELECT and the bulk load, gives it back in the very step
\* in which it ends, on success or failure, and never takes one again; so no
\* connection is held once streaming has returned.
C25_Step ==
    /\ \A t \in Tables :
          /\ (~task[t].conn /\ task'[t].conn) =>
                (task[t].pc = "acquire" /\ task'[t].pc = "select")
          /\ (task[t].conn /\ ~task'[t].conn) =>
                (task[t].pc \in {"select", "copy"} /\ task'[t].pc \in {"done", "failed"})
          /\ task'[t].conn = (task'[t].pc \in {"select", "copy"})
          /\ Finished(t) => task'[t] = task[t]
    /\ pc' # "migrateData" => \A t \in Tables : ~task'[t].conn

C25_ConnReleasedOnce == [][C25_Step]_vars

\* Streaming has returned after a bulk load that failed with rows sent and
\* after one that succeeded; no connection is held.
C25_Witness ==
    /\ ~Streaming
    /\ Entered("migrateData")
    /\ \E t \in Tables : task[t].pc = "failed" /\ task[t].copied > 0
    /\ \E t \in Tables : task[t].pc = "done" /\ task[t].copied > 0
    /\ ConnHeld = {}

\* The bulk load of table t ends in this step before the source is exhausted:
\* rowSource.Next returned false on a row it could not transform.
StreamAborted(t) ==
    /\ task[t].pc = "copy"
    /\ task'[t].pc # "copy"
    /\ task[t].copied < Len(schema[t].Rows)

\* C26 at one step: when the transformation of a row fails, the row stream
\* of the table stops at that row, the bulk load fails and leaves no row, and
\* the table is reported as failed; a failed table reads and sends nothing more.
C26_Step ==
    \A t \in Tables :
        /\ StreamAborted(t) =>
              /\ task'[t].pc = "failed"
              /\ task'[t].copied = task[t].copied
              /\ target'.rows[t] = << >>
              /\ Parallel => errCh' = Append(errCh, t)
              /\ ~Parallel => (pc' = "failed" /\ err' = Error("migrateData", << t >>))
        /\ task[t].pc = "failed" =>
              /\ task'[t] = task[t]
              /\ target'.rows[t] = target.rows[t]
        /\ (task'[t].pc = "failed" /\ pc' = "failed") =>
              \E i \in 1..Len(err'.cols) : err'.cols[i] = t

C26_TransformErrorAbortsTable == [][C26_Step]_vars

\* The run failed after the stream of a three-row table was cut at its
\* second row.
C26_Witness ==
    /\ pc = "failed"
    /\ \E t \in Tables :
          /\ task[t].pc = "failed"
          /\ task[t].copied = 1
          /\ Len(schema[t].Rows) = 3
          /\ target.rows[t] = << >>
          /\ \E i \in 1..Len(err.cols) : err.cols[i] = t

\* The foreign keys of the schema that have an orphan row in the target.
OrphanedKeys ==
    { tj \in UNION { { <<t, j>> : j \in ForeignKeysOf(t) } : t \in Tables } :
        HasOrphans(target, schema, tj[1], tj[2]) }

\* C27: once the orphan cleanup has completed, no foreign key of the schema
\* has an orphan row left, so adding the foreign keys cannot fail on one.
C27_NoOrphanAfterCleanup ==
    (pc = "addForeignKeys" /\ Entered("cleanOrphans")) => OrphanedKeys = {}

\* The steps of a data_only run between the first DISABLE TRIGGER ALL and
\* the re-enabling of the triggers.
GuardedSteps == {"disableTriggers", "before_data", "migrateData", "after_data"}

\* C28: in data_only mode, when a step fails after triggers were disabled,
\* ENABLE TRIGGER ALL is still applied before the run ends: a run that failed
\* in one of these steps leaves no table with its triggers disabled.
C28_TriggersRestoredOnFailure ==
    (/\ Mode(cfg) = "data_only"
     /\ pc = "failed"
     /\ hist # << >>
     /\ hist[Len(hist)] \in GuardedSteps)
        => target.trigOff = {}

\* Table t has been started and waits for a semaphore slot.
WaitsForSlot(t) ==
    t \in 1..Len(schema) /\ Streaming /\ Parallel /\ task[t].pc = "sem"

\* C29: parallel streaming always terminates: every table task that waits for
\* a semaphore slot eventually gets one, the error channel never holds more
\* errors than it has room for (one per table), and the streamer, once
\* entered, eventually returns.
C29_ParallelStreamingTerminates ==
    /\ (Streaming /\ Parallel) ~> ~Streaming
    /\ \A t \in 1..MaxTables : WaitsForSlot(t) ~> ~WaitsForSlot(t)
    /\ [](Len(errCh) <= Len(schema))

\* The streamer has returned after every one of more tables than workers failed.
C29_Witness ==
    /\ Parallel
    /\ Len(schema) > cfg.Workers
    /\ pc = "failed"
    /\ hist # << >>
    /\ hist[Len(hist)] = "migrateData"
    /\ Len(errCh) = Len(schema)

\* The index of the first dot of t outside double quotes, from i on; 0 if none.
RECURSIVE DotAt(_, _, _)
DotAt(t, i, inQuotes) ==
    IF i > Len(t) THEN 0
    ELSE IF t[i] = 34 THEN DotAt(t, i + 1, ~inQuotes)
    ELSE IF t[i] = 46 /\ ~inQuotes THEN i
    ELSE DotAt(t, i + 1, inQuotes)

\* One part of a name given as text to setval or nextval: in double quotes
\* it is taken as written, otherwise it is folded to lower case.
RegclassPart(t) ==
    IF t = << >> THEN NotAnIdentifier
    ELSE IF t[1] = 34 THEN ParseQuoted(t, 2, << >>)
    ELSE DownCase(t)

\* The schema and the sequence a qualified name of DDL names.
NamedInDDL(t) ==
    LET d == DotAt(t, 1, FALSE) IN
    IF d = 0 THEN NotAnIdentifier
    ELSE << ParseIdent(SubSeq(t, 1, d - 1)), ParseIdent(SubSeq(t, d + 1, Len(t))) >>

\* The schema and the sequence a name inside a setval or nextval literal names.
NamedInLiteral(t) ==
    LET d == DotAt(t, 1, FALSE) IN
    IF d = 0 THEN NotAnIdentifier
    ELSE << RegclassPart(SubSeq(t, 1, d - 1)), RegclassPart(SubSeq(t, d + 1, Len(t))) >>

SequenceReset == call.fn = "resetSequences" /\ call.round = 1

\* C30: the sequence reset routes the schema and sequence names of setval and
\* nextval through the identifier service, so both statements name the same
\* object as the CREATE SEQUENCE that precedes them.
C30_SequenceNamedAlike ==
    SequenceReset =>
        /\ call.out.setval = call.out.create
        /\ call.out.nextval = call.out.create
        /\ NamedInLiteral(call.out.setval) = NamedInDDL(call.out.create)
        /\ NamedInLiteral(call.out.nextval) = NamedInDDL(call.out.create)

====
